---- MODULE Spec2Model ----
(***************************************************************************)
(* The Seismographer renderer: the two App components (the IPC-driven one  *)
(* of src/unnamed/part_002 and the locally streamed one of                 *)
(* src/unnamed/part_001) with their Reading Store (valuesRef /             *)
(* stationValsRef), the mode toggle, the marker renderers (StationPins,    *)
(* StationPulse) and the heat overlay (GreenHeatOverlay) with its canvas,  *)
(* its requestAnimationFrame loop and its map / window listeners.          *)
(*                                                                         *)
(* React is modelled by what it does to this code: a state update          *)
(* re-renders App, the commit runs the cleanups of the effects whose       *)
(* dependencies changed (or whose component unmounted) and then the new    *)
(* effects.  One action is one event handler together with the render and  *)
(* commit it causes.  Reading values are held in hundredths (150 is 1.50). *)
(* JavaScript arrays are 0-based, the sequences here are 1-based.          *)
(***************************************************************************)
EXTENDS Integers, Sequences, FiniteSets, TLC

(***************************************************************************)
(* JavaScript values                                                       *)
(***************************************************************************)
Num(n) == [t |-> "number", v |-> n]

Undefined == [t |-> "undefined", v |-> 0]

\* the number NaN (it is not a number IsNumber accepts: no arithmetic on it
\* yields a value)
NaN == [t |-> "NaN", v |-> 0]

Null == [t |-> "null", v |-> 0]

\* a non-numeric string such as "abc"
Str == [t |-> "string", v |-> 0]

IsNumber(x) == x.t = "number"

\* a ?? b
Nullish(a, b) == IF a.t \in {"undefined", "null"} THEN b ELSE a

\* {}
EmptyObj == [k \in {} |-> Undefined]

\* obj[k]
Lookup(obj, k) == IF k \in DOMAIN obj THEN obj[k] ELSE Undefined

\* obj[k] = x
Put(obj, k, x) == [j \in DOMAIN obj \cup {k} |-> IF j = k THEN x ELSE obj[j]]

\* arr[i] of an array read past its end is undefined
At(arr, i) == IF i \in DOMAIN arr THEN arr[i] ELSE Undefined

Max(a, b) == IF a >= b THEN a ELSE b

Min(a, b) == IF a <= b THEN a ELSE b

\* the least natural number >= 1 outside the finite set used
Fresh(used) == CHOOSE n \in 1..(Cardinality(used) + 1) :
                 n \notin used /\ \A m \in 1..(n - 1) : m \in used

(***************************************************************************)
(* Bounds and input pools                                                  *)
(***************************************************************************)
\* longest station list a live payload carries
MaxStations == 2

\* station ids the receiver may report
StationIds == {"WAR1", "WAR2"}

\* rms fields a live payload may carry: a number, a missing field, a string
RmsPool == {Num(150), Undefined, Str}

\* the values rndVal() draws (two decimals in [-3, 3])
RndPool == {-300, 150}

\* map sizes (width, height) in pixels and viewport states (pan / zoom)
MapSizes == {<<16, 8>>, <<8, 8>>}

Views == {0, 1}

LivePayloads == UNION {[1..n -> [id : StationIds, rms : RmsPool]] : n \in 0..MaxStations}

\* STATIONS of the local App
STATIONS == <<"WAR1", "WAR2">>

(***************************************************************************)
(* Pure functions of the renderers                                         *)
(***************************************************************************)
\* Math.round(255 * k / 300) for 0 <= k <= 300 (round half up)
Round255(k) == (34 * k + 20) \div 40

NaNColor == [nan |-> TRUE, r |-> 0, g |-> 255, b |-> 0]

\* valueToColor: clamp to [-3, 3], red -> yellow below 0, yellow -> green above;
\* a non-number makes Math.min / Math.max yield NaN, so the string is rgb(NaN,255,0)
valueToColor(x) ==
  IF ~IsNumber(x) THEN NaNColor
  ELSE LET val == Max(-300, Min(300, x.v)) IN
       IF val < 0
         THEN [nan |-> FALSE, r |-> 255, g |-> Round255(val + 300), b |-> 0]
         ELSE [nan |-> FALSE, r |-> Round255(300 - val), g |-> 255, b |-> 0]

\* GreenHeatOverlay.valToRGB: x = Math.max(-3, Math.min(3, v)); x < 0 gives
\* [255, Math.round(255 * (x + 3) / 3), 0], else [Math.round(255 * (1 - x / 3)), 255, 0];
\* for NaN both Math.min and Math.max yield NaN, NaN < 0 is false, and the
\* first component is Math.round(NaN) = NaN
valToRGB(x) ==
  IF ~IsNumber(x) THEN NaNColor
  ELSE LET c == Max(-300, Min(300, x.v)) IN
       IF c < 0
         THEN [nan |-> FALSE, r |-> 255, g |-> Round255(c + 300), b |-> 0]
         ELSE [nan |-> FALSE, r |-> Round255(300 - c), g |-> 255, b |-> 0]

(***************************************************************************)
(* GreenHeatOverlay.draw: the grid loop and the interpolation               *)
(***************************************************************************)
\* const cell = 8
cell == 8

\* (variant) the loop steps over every second cell
loopFromCoarse(x, w) ==
  [k \in 1..(IF x < w THEN ((w - x - 1) \div (2 * cell)) + 1 ELSE 0) |->
     x + (k - 1) * 2 * cell]

\* for (let x = 0; x < w; x += cell): the values x takes, in order
RECURSIVE loopFrom(_, _)
loopFrom(x, w) == IF x < w THEN <<x>> \o loopFrom(x + cell, w) ELSE <<>>

\* dx*dx + dy*dy for the cell origin (x, y) and the projected station p
dist2(x, y, p) == (x - p.x) * (x - p.x) + (y - p.y) * (y - p.y)

\* the stations whose projection is the cell origin itself: d = eps, so each
\* weighs 1 / eps^2 = 1e8, against at most 1 / (1 + eps)^2 for any other
onOrigin(x, y, sPx) == {i \in 1..Len(sPx) : dist2(x, y, sPx[i]) = 0}

\* wgt = 1 / Math.pow(d, 2) with d = Math.sqrt(dx*dx + dy*dy) + eps, as the
\* denominator of the weight.  eps = 1e-4 pixel is below what the model
\* resolves: a station at d >= 1 weighs 1 / (dx*dx + dy*dy); when stations sit
\* on the origin they weigh alike and the others, 1e-8 of them, drop out
wgtDen(x, y, sPx, i) == IF onOrigin(x, y, sPx) # {} THEN 1 ELSE dist2(x, y, sPx[i])

counts(x, y, sPx, i) == onOrigin(x, y, sPx) = {} \/ i \in onOrigin(x, y, sPx)

RECURSIVE sums(_, _, _, _, _)

\* (variant) num = (vals[i] ?? 0) * wgt: each station overwrites num
sumsOverwrite(i, x, y, sPx, vals) ==
  IF i = 0 THEN [num |-> 0, den |-> 0, over |-> 1]
  ELSE LET s == sums(i - 1, x, y, sPx, vals)
           v == Nullish(At(vals, i), Num(0)).v
           d == wgtDen(x, y, sPx, i)
       IN IF counts(x, y, sPx, i)
            THEN [num |-> v * s.over, den |-> s.den * d + s.over,
                  over |-> s.over * d]
            ELSE s

\* let num = 0, den = 0; for (i ...) { num += (vals[i] ?? 0) * wgt; den += wgt }
\* after the first i stations, as the fractions num / over and den / over
sums(i, x, y, sPx, vals) ==
  IF i = 0 THEN [num |-> 0, den |-> 0, over |-> 1]
  ELSE LET s == sums(i - 1, x, y, sPx, vals)
           v == Nullish(At(vals, i), Num(0)).v
           d == wgtDen(x, y, sPx, i)
       IN IF counts(x, y, sPx, i)
            THEN [num |-> s.num * d + v * s.over, den |-> s.den * d + s.over,
                  over |-> s.over * d]
            ELSE s

\* valToRGB of the fraction n / d of hundredths (d > 0): clamp to [-3, 3],
\* then [255, Math.round(255 * (x + 3) / 3), 0] below 0 and
\* [Math.round(255 * (1 - x / 3)), 255, 0] from 0 on, rounding half up
valToRGBFrac(n, d) ==
  LET c == IF n < -300 * d THEN -300 * d ELSE IF n > 300 * d THEN 300 * d ELSE n IN
  IF c < 0
    THEN [nan |-> FALSE, r |-> 255, g |-> (17 * (c + 300 * d) + 10 * d) \div (20 * d), b |-> 0]
    ELSE [nan |-> FALSE, r |-> (17 * (300 * d - c) + 10 * d) \div (20 * d), g |-> 255, b |-> 0]

\* (variant) const val = num / den, without the test of den: 0 / 0 is NaN
fillCellUnguarded(x, y, sPx, vals) ==
  LET s == sums(Len(sPx), x, y, sPx, vals)
  IN [x |-> x, y |-> y, w |-> cell, h |-> cell, den |-> s.den, divided |-> TRUE,
      n |-> s.num, d |-> s.den,
      rgb |-> IF s.den = 0 THEN [nan |-> TRUE, r |-> 0, g |-> 0, b |-> 0]
              ELSE valToRGBFrac(s.num, s.den)]

\* one cell of the grid: const val = den ? num / den : 0; const [r,g,b] =
\* valToRGB(val); ctx.fillStyle = ...; ctx.fillRect(x, y, cell, cell).
\* val is kept as the fraction n / d; divided tells that num / den was computed
fillCell(x, y, sPx, vals) ==
  LET s == sums(Len(sPx), x, y, sPx, vals)
      n == IF s.den # 0 THEN s.num ELSE 0
      d == IF s.den # 0 THEN s.den ELSE 1
  IN [x |-> x, y |-> y, w |-> cell, h |-> cell, den |-> s.den, divided |-> s.den # 0,
      n |-> n, d |-> d, rgb |-> valToRGBFrac(n, d)]

\* for (let y = 0; y < h; y += cell) for (let x = 0; x < w; x += cell) { ... }:
\* the cells filled, in the order they are filled
RECURSIVE fillRow(_, _, _, _)
fillRow(xs, y, sPx, vals) ==
  IF xs = <<>> THEN <<>>
  ELSE <<fillCell(Head(xs), y, sPx, vals)>> \o fillRow(Tail(xs), y, sPx, vals)

RECURSIVE fillRows(_, _, _, _)
fillRows(ys, w, sPx, vals) ==
  IF ys = <<>> THEN <<>>
  ELSE fillRow(loopFrom(0, w), Head(ys), sPx, vals) \o fillRows(Tail(ys), w, sPx, vals)

drawCells(w, h, sPx, vals) == fillRows(loopFrom(0, h), w, sPx, vals)

\* v.toFixed(2) of a number held in hundredths
toFixed2(n) ==
  [neg |-> n < 0,
   int |-> (IF n < 0 THEN -n ELSE n) \div 100,
   frac |-> (IF n < 0 THEN -n ELSE n) % 100]

\* values[s.id] ?? 0
ReadValue(values, id) == Nullish(Lookup(values, id), Num(0))

\* (variant) the first entry of a station id wins instead of the last
RECURSIVE nextValsFirstWinsUpTo(_, _)
nextValsFirstWinsUpTo(payload, n) ==
  IF n = 0 THEN EmptyObj
  ELSE LET before == nextValsFirstWinsUpTo(payload, n - 1) IN
       IF payload[n].id \in DOMAIN before THEN before
       ELSE Put(before, payload[n].id, Nullish(payload[n].rms, Num(0)))

nextValsFirstWins(payload) == nextValsFirstWinsUpTo(payload, Len(payload))

\* handler: const nextVals = {}; for (const s of payload.stations) nextVals[s.id] = s.rms ?? 0
RECURSIVE nextValsUpTo(_, _)
nextValsUpTo(payload, n) ==
  IF n = 0 THEN EmptyObj
  ELSE Put(nextValsUpTo(payload, n - 1), payload[n].id, Nullish(payload[n].rms, Num(0)))

nextVals(payload) == nextValsUpTo(payload, Len(payload))

\* (variant) only the first station of a payload is listed
nextStationsFirstOnly(payload) == [i \in 1..Min(1, Len(payload)) |-> payload[i].id]

\* handler: payload.stations.map(s => ({ id: s.id, latlng: ... }))
nextStations(payload) == [i \in 1..Len(payload) |-> payload[i].id]

\* (variant) the memo is recomputed only when the number of stations changes
useMemoByLength(prev, depsChanged, sts, values) ==
  IF Len(prev) # Len(sts) THEN [i \in 1..Len(sts) |-> ReadValue(values, sts[i])] ELSE prev

\* useMemo(() => stations.map(s => valuesRef.current[s.id] ?? 0), [stations])
useMemoValsArray(prev, depsChanged, sts, values) ==
  IF depsChanged THEN [i \in 1..Len(sts) |-> ReadValue(values, sts[i])] ELSE prev

\* (variant) a toggle that only ever switches to the overlay
toggleToOverlay(m) == "overlay"

\* setMode(m => (m === 'pin' ? 'overlay' : 'pin'))
toggle(m) == IF m = "pin" THEN "overlay" ELSE "pin"

(***************************************************************************)
(* State                                                                   *)
(***************************************************************************)
VARIABLES
  app,            \* which program runs: the "live" App (part_002), the "local"
                  \* App (part_001), the express "server" (server.js), or
                  \* "colour": the colour mapping called on its own, or
                  \* "grid": the grid loop of draw called on its own, or
                  \* "preload": the api object of the preload script, or
                  \* "python": the main process's 'get-data' handler, or
                  \* "main": the main process with its receiver bridge
  mode,           \* useState<'pin' | 'overlay'>
  stations,       \* live: useState stations (ids, each with its latlng)
  valuesRef,      \* live: valuesRef.current, station id -> value
  stationValsRef, \* local: stationValsRef.current, values by position
  valsArray,      \* live: the memoised valsArray
  subscribed,     \* live: the 'receiver:live' listener is registered
  pyPending,      \* local: the getData() call made on mount has not settled
  crashed,        \* a render threw: React unmounted the tree
  pinsMounted,    \* StationPins shows its markers
  pins,           \* the popups StationPins rendered: [id, text]
  pinsTimer,      \* local: StationPins' 200 ms setInterval is running
  circleRefs,     \* StationPulse: circleRefs.current
  acts,           \* closures of the running frame-loop effects, by activation
  pending,        \* callbacks requestAnimationFrame holds: [id, act]
  onMove,         \* activations whose sync is registered for map 'move'
  onZoom,         \* ... for map 'zoom'
  onResize,       \* ... for window 'resize'
  canvas,         \* the overlay canvases: id -> [w, h, paint]
  pane,           \* canvases attached to map.getPanes().overlayPane
  canvasRef,      \* GreenHeatOverlay: canvasRef.current (0 is null)
  fxCanvas,       \* the canvas the kept cleanup of the canvas effect closes over
  fxLoop,         \* the activation the kept cleanup of the loop effect closes over
  fxPulse,        \* the activation the kept cleanup of StationPulse's effect closes over
  mapSize,        \* map.getSize()
  view,           \* the map's pan / zoom state, which latLngToContainerPoint uses
  staleRun,       \* history: a callback of a torn-down effect has run
  written,        \* history: per station, the value the last applied update wrote last
  toggleHist,     \* history: the states before the last (two) toggles in a row
  data,           \* server: let data, the cached content of stream.json
  srcResult,      \* history: how the last access to the reading source ended
  wave,           \* history: the last detail request (fetchWave) and how it went
  ctx2d,          \* the browser: canvas.getContext('2d') yields a context (not null)
  shade,          \* colour mapping: the last call of valueToColor / valToRGB
  grid,           \* the heat grid: the last call of draw's grid loop on its own
  ipc,            \* the preload bridge: ipcRenderer's listeners of the channel and the api calls made
  py,             \* the 'get-data' request: the spawned Python process and the promise
  bridge          \* the main process: its windows, the receiver bridge and the polls of /live

vars == <<app, mode, stations, valuesRef, stationValsRef, valsArray, subscribed,
          pyPending, crashed, pinsMounted, pins, pinsTimer, circleRefs, acts,
          pending, onMove, onZoom, onResize, canvas, pane, canvasRef, fxCanvas,
          fxLoop, fxPulse, mapSize, view, staleRun, written, toggleHist, data,
          srcResult, wave, ctx2d, shade,
          grid,
          ipc,
          py,
          bridge>>

\* the browser / React runtime state the effects act on, as one record
RT ==
  [acts |-> acts, pending |-> pending, onMove |-> onMove, onZoom |-> onZoom,
   onResize |-> onResize, canvas |-> canvas, pane |-> pane, canvasRef |-> canvasRef,
   fxCanvas |-> fxCanvas, fxLoop |-> fxLoop, fxPulse |-> fxPulse,
   circleRefs |-> circleRefs]

SetRT(r) ==
  /\ acts' = r.acts
  /\ pending' = r.pending
  /\ onMove' = r.onMove
  /\ onZoom' = r.onZoom
  /\ onResize' = r.onResize
  /\ canvas' = r.canvas
  /\ pane' = r.pane
  /\ canvasRef' = r.canvasRef
  /\ fxCanvas' = r.fxCanvas
  /\ fxLoop' = r.fxLoop
  /\ fxPulse' = r.fxPulse
  /\ circleRefs' = r.circleRefs

(***************************************************************************)
(* requestAnimationFrame / cancelAnimationFrame                            *)
(***************************************************************************)
\* the id requestAnimationFrame returns: unique among the ids that are requested
\* or that a closure still holds in its raf
rafId(r) ==
  Fresh({p.id : p \in r.pending} \cup {r.acts[x].raf : x \in DOMAIN r.acts})

requestAnimationFrame(r, a, id) ==
  [r EXCEPT !.pending = @ \cup {[id |-> id, act |-> a]}]

cancelAnimationFrame(r, id) ==
  [r EXCEPT !.pending = {p \in @ : p.id # id}]

(***************************************************************************)
(* GreenHeatOverlay                                                        *)
(***************************************************************************)
Blank ==
  [drawn |-> FALSE, old |-> FALSE, size |-> <<0, 0>>, view |-> 0, pts |-> <<>>,
   vals |-> <<>>, batch |-> EmptyObj]

\* document.createElement('canvas'): 300 x 150, nothing drawn
NewCanvas == [w |-> 300, h |-> 150, paint |-> Blank]

\* resize: setting width / height also clears the canvas
resize(r, size) ==
  LET c == r.canvasRef IN
  IF c = 0 THEN r
  ELSE [r EXCEPT !.canvas[c] = [w |-> size[1], h |-> size[2], paint |-> Blank]]

\* (variant) draw always uses the array the effect closed over
sValsCaptured(cl, refNow) == cl.vals

\* the values draw interpolates from: the vals prop the effect closed over
\* (live) or stationValsRef.current read in the frame (local)
sVals(cl, refNow) == IF cl.byRef THEN refNow ELSE cl.vals

\* (variant) draw uses the canvas without asking whether it has a context
drawAnyway(r, a, size, vw, refNow) ==
  LET c == r.canvasRef
      cl == r.acts[a]
      sv == sVals(cl, refNow)
  IN IF c = 0 THEN r
     ELSE [r EXCEPT !.canvas[c].paint =
             [drawn |-> TRUE, old |-> FALSE, size |-> size, view |-> vw, pts |-> cl.pts,
              vals |-> [i \in 1..Len(cl.pts) |-> Nullish(At(sv, i), Num(0))],
              batch |-> written]]

\* draw in a browser where getContext('2d') yields a context (ctx) or null:
\* const c = canvasRef.current; if (!c) return; const ctx = c.getContext('2d');
\* if (!ctx) return.  Then project the stations with the current view and
\* paint the grid from (vals[i] ?? 0); the painted cells are kept as the inputs
\* they were computed from, with the update that was the last applied one
\* when they were painted
drawWith(r, a, size, vw, refNow, ctx) ==
  LET c == r.canvasRef
      cl == r.acts[a]
      sv == sVals(cl, refNow)
  IN IF c = 0 THEN r
     ELSE IF ~ctx THEN r
     ELSE [r EXCEPT !.canvas[c].paint =
             [drawn |-> TRUE, old |-> FALSE, size |-> size, view |-> vw, pts |-> cl.pts,
              vals |-> [i \in 1..Len(cl.pts) |-> Nullish(At(sv, i), Num(0))],
              batch |-> written]]

draw(r, a, size, vw, refNow) == drawWith(r, a, size, vw, refNow, ctx2d)

\* (variant) the id of the re-requested frame is not kept in raf
tickLosesRaf(r, a, size, vw, refNow) ==
  LET r2 == draw(resize(r, size), a, size, vw, refNow)
  IN requestAnimationFrame(r2, a, rafId(r2))

\* (variant) the frame does not request the next one
tickStops(r, a, size, vw, refNow) == draw(resize(r, size), a, size, vw, refNow)

\* (variant) the frame paints before it resizes the canvas
tickDrawsFirst(r, a, size, vw, refNow) ==
  LET r2 == resize(draw(r, a, size, vw, refNow), size)
      id == rafId(r2)
  IN [requestAnimationFrame(r2, a, id) EXCEPT !.acts[a].raf = id]

\* const tick = () => { resize(); draw(); raf = requestAnimationFrame(tick) }
tick(r, a, size, vw, refNow) ==
  LET r2 == draw(resize(r, size), a, size, vw, refNow)
      id == rafId(r2)
  IN [requestAnimationFrame(r2, a, id) EXCEPT !.acts[a].raf = id]

\* (variant) the listener resizes the canvas and does not repaint
syncResizeOnly(r, a, size, vw, refNow) == resize(r, size)

\* const sync = () => { resize(); draw() }
sync(r, a, size, vw, refNow) == draw(resize(r, size), a, size, vw, refNow)

\* first effect: create the canvas, append it to the overlay pane, keep it in canvasRef
canvasEffect(r) ==
  LET c == Fresh(DOMAIN r.canvas) IN
  [r EXCEPT !.canvas = [x \in DOMAIN @ \cup {c} |-> IF x = c THEN NewCanvas ELSE @[x]],
            !.pane = @ \cup {c},
            !.canvasRef = c,
            !.fxCanvas = c]

\* its cleanup: canvas.remove(); canvasRef.current = null
canvasCleanup(r, c) ==
  [r EXCEPT !.pane = @ \ {c}, !.canvasRef = 0]

\* second effect: start the frame loop and register sync for move, zoom, resize
loopEffect(r, pts, vals, byRef) ==
  LET a == Fresh(DOMAIN r.acts)
      cl == [kind |-> "tick", raf |-> 0, alive |-> TRUE, pts |-> pts, vals |-> vals,
             store |-> EmptyObj, byRef |-> byRef]
      r1 == [r EXCEPT !.acts = [x \in DOMAIN @ \cup {a} |-> IF x = a THEN cl ELSE @[x]]]
      id == rafId(r1)
  IN [requestAnimationFrame(r1, a, id) EXCEPT
        !.acts[a].raf = id,
        !.onMove = @ \cup {a},
        !.onZoom = @ \cup {a},
        !.onResize = @ \cup {a},
        !.fxLoop = a]

\* (variant) the window's resize listener is not removed
loopCleanupKeepsResize(r, a, raf) ==
  [cancelAnimationFrame(r, raf) EXCEPT
     !.onMove = @ \ {a},
     !.onZoom = @ \ {a}]

\* its cleanup: cancelAnimationFrame(raf); map.off(...); window.removeEventListener(...)
loopCleanup(r, a, raf) ==
  [cancelAnimationFrame(r, raf) EXCEPT
     !.onMove = @ \ {a},
     !.onZoom = @ \ {a},
     !.onResize = @ \ {a}]

(***************************************************************************)
(* StationPulse                                                            *)
(***************************************************************************)
\* pathOptions: color '#000', fillColor '#ff0'
PathColor == [nan |-> FALSE, r |-> 255, g |-> 255, b |-> 0]

\* lit: animate has styled the circle since it was rendered; batch: the update
\* that was the last applied one when it did
NullCircle == [inst |-> FALSE, id |-> "", col |-> PathColor, lit |-> FALSE, batch |-> EmptyObj]

\* the value animate colours circle i with: values[s.id] ?? 0 of station i
\* (live), vals[i] ?? 0 of stationValsRef.current (local)
pulseValue(cl, refNow, i) ==
  IF cl.byRef THEN Nullish(At(refNow, i), Num(0))
  ELSE ReadValue(cl.store, cl.pts[i])

\* animate: colour every circle that has a ref, then request the next frame
animate(r, a, refNow) ==
  LET cl == r.acts[a]
      n == IF cl.byRef THEN Len(r.circleRefs) ELSE Len(cl.pts)
      r1 == [r EXCEPT !.circleRefs =
               [i \in DOMAIN @ |->
                  IF i <= n /\ @[i].inst
                    THEN [@[i] EXCEPT !.col = valueToColor(pulseValue(cl, refNow, i)),
                                      !.lit = TRUE, !.batch = written]
                    ELSE @[i]]]
      id == rafId(r1)
  IN [requestAnimationFrame(r1, a, id) EXCEPT !.acts[a].raf = id]

\* StationPulse's effect: raf = requestAnimationFrame(animate)
pulseEffect(r, sts, store, byRef) ==
  LET a == Fresh(DOMAIN r.acts)
      cl == [kind |-> "animate", raf |-> 0, alive |-> TRUE, pts |-> sts, vals |-> <<>>,
             store |-> store, byRef |-> byRef]
      r1 == [r EXCEPT !.acts = [x \in DOMAIN @ \cup {a} |-> IF x = a THEN cl ELSE @[x]]]
      id == rafId(r1)
  IN [requestAnimationFrame(r1, a, id) EXCEPT !.acts[a].raf = id, !.fxPulse = a]

\* its cleanup: () => cancelAnimationFrame(raf)
pulseCleanup(r, a, raf) == cancelAnimationFrame(r, raf)

\* the CircleMarkers of one render: the refs of the last render are called with
\* null, those of this render with their instance; pathOptions is a new object
\* in every render, so each circle is styled with it again
renderCircles(old, sts, visible) ==
  [i \in 1..Max(Len(old), IF visible THEN Len(sts) ELSE 0) |->
     IF visible /\ i <= Len(sts)
       THEN [inst |-> TRUE, id |-> sts[i], col |-> PathColor, lit |-> FALSE,
             batch |-> EmptyObj]
       ELSE NullCircle]

(***************************************************************************)
(* StationPins                                                             *)
(***************************************************************************)
\* live: stations.map(s => { const v = values[s.id] ?? 0; ... v.toFixed(2) ... })
pinsLive(sts, values) ==
  [i \in 1..Len(sts) |-> [id |-> sts[i], text |-> toFixed2(ReadValue(values, sts[i]).v)]]

\* v.toFixed is not a function unless v is a number: the render throws
pinsLiveThrows(sts, values) ==
  \E i \in 1..Len(sts) : ~IsNumber(ReadValue(values, sts[i]))

\* local: const [v1, v2] = stationValsRef.current; v1.toFixed(2), v2.toFixed(2)
pinsLocal(refNow) ==
  [i \in 1..Len(STATIONS) |-> [id |-> STATIONS[i], text |-> toFixed2(At(refNow, i).v)]]

pinsLocalThrows(refNow) ==
  \E i \in 1..Len(STATIONS) : ~IsNumber(At(refNow, i))

(***************************************************************************)
(* React: commit of one render                                             *)
(***************************************************************************)
\* the cleanup an effect returned runs when its component unmounts (or its
\* visible flag turns false) and when one of its dependencies changed
runsCleanup(slot, stays, depsChanged) == slot # 0 /\ (~stays \/ depsChanged)

endPulse(r) ==
  LET a == r.fxPulse IN
  [pulseCleanup(r, a, r.acts[a].raf) EXCEPT !.acts[a].alive = FALSE, !.fxPulse = 0]

endCanvas(r) ==
  LET c == r.fxCanvas IN
  [canvasCleanup(r, c) EXCEPT !.fxCanvas = 0]

\* The frame the torn-down loop painted last stays on the canvas.  Nothing reads
\* it back, so only its geometry is kept, marked as an earlier activation's.
Aged(cv) ==
  [c \in DOMAIN cv |->
     IF cv[c].paint.drawn
       THEN [cv[c] EXCEPT !.paint.old = TRUE, !.paint.pts = <<>>, !.paint.vals = <<>>,
                          !.paint.batch = EmptyObj]
       ELSE cv[c]]

endLoop(r) ==
  LET a == r.fxLoop
      raf == r.acts[a].raf
  IN [loopCleanup(r, a, raf) EXCEPT
        !.acts[a].alive = FALSE, !.fxLoop = 0, !.canvas = Aged(@)]

\* closures and canvases nothing refers to any more are gone
Collect(r) ==
  LET used == {p.act : p \in r.pending} \cup r.onMove \cup r.onZoom \cup r.onResize
      keepA == {a \in DOMAIN r.acts : r.acts[a].alive \/ a \in used}
      keepC == r.pane \cup ({r.canvasRef} \ {0})
  IN [r EXCEPT !.acts = [a \in keepA |-> @[a]], !.canvas = [c \in keepC |-> @[c]]]

\* the props of one App render: P.pts the station list, P.vals the vals prop,
\* P.store the values prop, P.byRef whether the renderers hold the ref itself,
\* P.loopDeps / P.pulseDeps whether a dependency of the loop / pulse effect changed
Commit(r, m1, live, P) ==
  LET isPin == m1 = "pin"
      isOv == m1 = "overlay"
      c1 == IF runsCleanup(r.fxPulse, isPin, P.pulseDeps) THEN endPulse(r) ELSE r
      c2 == IF runsCleanup(c1.fxCanvas, isOv, FALSE) THEN endCanvas(c1) ELSE c1
      c3 == Collect(IF runsCleanup(c2.fxLoop, isOv, P.loopDeps) THEN endLoop(c2) ELSE c2)
      s1 == IF isPin /\ c3.fxPulse = 0
              THEN pulseEffect(c3, P.pts, P.store, P.byRef) ELSE c3
      s2 == IF isOv /\ s1.fxCanvas = 0 THEN canvasEffect(s1) ELSE s1
      s3 == IF isOv /\ s2.fxLoop = 0
              THEN loopEffect(s2, P.pts, P.vals, P.byRef) ELSE s2
      old == IF live /\ r.fxPulse = 0 THEN <<>> ELSE r.circleRefs
      refs == IF live /\ ~isPin THEN <<>> ELSE renderCircles(old, P.pts, isPin)
  IN Collect([s3 EXCEPT !.circleRefs = refs])

\* an uncaught error in a render: React unmounts the whole tree
Unmount(r) ==
  LET c1 == IF r.fxPulse # 0 THEN endPulse(r) ELSE r
      c2 == IF c1.fxCanvas # 0 THEN endCanvas(c1) ELSE c1
      c3 == IF c2.fxLoop # 0 THEN endLoop(c2) ELSE c2
  IN Collect([c3 EXCEPT !.circleRefs = <<>>])

\* what the toggle claim counts: how often each renderer is mounted
Mounts(r, shown) ==
  [pins |-> IF shown THEN 1 ELSE 0,
   pulses |-> Cardinality({a \in DOMAIN r.acts : r.acts[a].kind = "animate"}),
   loops |-> Cardinality({a \in DOMAIN r.acts : r.acts[a].kind = "tick"}),
   canvases |-> Cardinality(r.pane),
   listeners |-> Cardinality(r.onMove) + Cardinality(r.onZoom) + Cardinality(r.onResize)]

\* whether the overlay canvas shows a painted frame
Painted(r) == r.canvasRef # 0 /\ r.canvas[r.canvasRef].paint.drawn

\* App re-renders with mode m1, station list sts, store values / refNow
Rerender(m1, sts, vals, values, refNow, loopDeps, pulseDeps) ==
  LET live == app = "live"
      P == [pts |-> sts, vals |-> vals, store |-> values, byRef |-> ~live,
            loopDeps |-> loopDeps, pulseDeps |-> pulseDeps]
      throws == m1 = "pin" /\ (IF live THEN pinsLiveThrows(sts, values)
                                       ELSE pinsLocalThrows(refNow))
  IN IF throws
       THEN /\ crashed' = TRUE
            /\ pinsMounted' = FALSE
            /\ pins' = <<>>
            /\ pinsTimer' = FALSE
            /\ subscribed' = FALSE
            /\ SetRT(Unmount(RT))
       ELSE /\ crashed' = FALSE
            /\ pinsMounted' = (m1 = "pin")
            /\ pins' = (IF m1 # "pin" THEN <<>>
                        ELSE IF live THEN pinsLive(sts, values) ELSE pinsLocal(refNow))
            /\ pinsTimer' = (~live /\ m1 = "pin")
            /\ subscribed' = subscribed
            /\ SetRT(Commit(RT, m1, live, P))

(***************************************************************************)
(* Initial state: App mounted in pin mode                                  *)
(***************************************************************************)
NoRT ==
  [acts |-> <<>>, pending |-> {}, onMove |-> {}, onZoom |-> {}, onResize |-> {},
   canvas |-> <<>>, pane |-> {}, canvasRef |-> 0, fxCanvas |-> 0, fxLoop |-> 0,
   fxPulse |-> 0, circleRefs |-> <<>>]

\* the colour mapping was not called yet
NoShade == [called |-> FALSE, v |-> Num(0), colour |-> NaNColor, rgb |-> NaNColor]

\* the main process before app.whenReady(): let timer = null, no window, no
\* invoke handler, and 'ping' the only channel with an ipcMain.on listener
NoBridge == [phase |-> "launch", windows |-> {}, windowsMade |-> 0,
             timer |-> 0, timersMade |-> 0, intervals |-> {},
             handlers |-> {}, events |-> {}, last |-> "none", threw |-> FALSE,
             polls |-> {}, issued |-> 0, sent |-> 0, stored |-> 0, received |-> {}]

\* 'get-data' was not invoked yet
NoRequest == [phase |-> "idle", spawned |-> FALSE, out |-> <<>>, chunks |-> <<>>,
              errorFired |-> FALSE, closed |-> FALSE, code |-> Undefined,
              promise |-> [state |-> "pending", value |-> <<>>],
              settles |-> 0, settleCalls |-> 0]

\* no api call was made yet: the channel has no listener
NoListeners == [listeners |-> <<>>, calls |-> <<>>, delivered |-> {}]

\* the grid loop was not called yet
NoGrid == [called |-> FALSE, w |-> 0, h |-> 0, sPx |-> <<>>, vals |-> <<>>,
           cells |-> <<>>]

\* no detail request was made yet
NoWave == [clicked |-> "", sent |-> "", invoke |-> "none", log |-> "none",
           returned |-> "none", failed |-> FALSE]

FirstRT(live) ==
  Commit(NoRT, "pin", live,
         [pts |-> IF live THEN <<>> ELSE STATIONS, vals |-> <<>>, store |-> EmptyObj,
          byRef |-> ~live, loopDeps |-> FALSE, pulseDeps |-> FALSE])

\* the state after construction, whatever the browser's canvas support
\* the programs and functions that Spec runs
Programs == {"live", "local", "server", "colour", "grid", "preload", "python"}

Constructed ==
  /\ app \in Programs \cup {"main"}
  /\ mode = "pin"
  /\ stations = (IF app = "live" THEN <<>> ELSE STATIONS)
  /\ valuesRef = EmptyObj
  /\ stationValsRef = <<Num(0), Num(0)>>
  /\ valsArray = <<>>
  /\ subscribed = (app = "live")
  /\ pyPending = (app = "local")
  /\ crashed = FALSE
  /\ pinsMounted = (app \in {"live", "local"})
  /\ pins = (IF app = "local" THEN pinsLocal(<<Num(0), Num(0)>>) ELSE <<>>)
  /\ pinsTimer = (app = "local")
  /\ LET r == IF app \in {"live", "local"} THEN FirstRT(app = "live") ELSE NoRT IN
       /\ acts = r.acts
       /\ pending = r.pending
       /\ onMove = r.onMove
       /\ onZoom = r.onZoom
       /\ onResize = r.onResize
       /\ canvas = r.canvas
       /\ pane = r.pane
       /\ canvasRef = r.canvasRef
       /\ fxCanvas = r.fxCanvas
       /\ fxLoop = r.fxLoop
       /\ fxPulse = r.fxPulse
       /\ circleRefs = r.circleRefs
  /\ mapSize = <<16, 8>>
  /\ view = 0
  /\ staleRun = FALSE
  /\ written = EmptyObj
  /\ toggleHist = <<>>
  /\ data = <<>>
  /\ srcResult = "none"
  /\ wave = NoWave
  /\ shade = NoShade
  /\ grid = NoGrid
  /\ ipc = NoListeners
  /\ py = NoRequest
  /\ bridge = NoBridge

\* a browser whose canvases have a 2D context
Init == Constructed /\ app \in Programs /\ ctx2d = TRUE

\* the main process of the live application
MainInit == Constructed /\ app = "main" /\ ctx2d = TRUE

\* a browser in which getContext('2d') returns null
InitNoContext == Constructed /\ app \in Programs /\ ctx2d = FALSE

(***************************************************************************)
(* Actions                                                                 *)
(***************************************************************************)
\* per station of a live payload, the value of its last entry (a missing rms is
\* written as 0)
writesOf(payload) ==
  [id \in {payload[i].id : i \in 1..Len(payload)} |->
     LET last == CHOOSE i \in 1..Len(payload) :
                   /\ payload[i].id = id
                   /\ \A j \in (i + 1)..Len(payload) : payload[j].id # id
     IN Nullish(payload[last].rms, Num(0))]

\* what one poll of /live by the receiver bridge may meet: fetch rejects, or a
\* response arrives: its status is OK or not, its body parses as JSON or not
PollOutcomes ==
  {[reject |-> TRUE, ok |-> FALSE, json |-> FALSE, payload |-> <<>>]}
    \cup {[reject |-> FALSE, ok |-> o, json |-> FALSE, payload |-> <<>>] : o \in BOOLEAN}
    \cup {[reject |-> FALSE, ok |-> FALSE, json |-> TRUE, payload |-> p] : p \in LivePayloads}
    \cup {[reject |-> FALSE, ok |-> TRUE, json |-> TRUE, payload |-> p] : p \in LivePayloads}

\* the reading source failed: the poll threw, or the status was not OK, or the
\* body could not be parsed
TransientFailure(out) == out.reject \/ ~out.ok \/ ~out.json

\* (variant) the bridge pushes the body without looking at the status
bridgeIgnoresStatus(out) == ~out.reject /\ out.json

\* bridge: try { res = await fetch(); if (!res.ok) return; json = await res.json();
\* win.webContents.send('receiver:live', json) } catch { }
bridgeSends(out) == ~out.reject /\ out.ok /\ out.json

\* what the handler computes from the payload of each poll that sends one
\* (payloads it maps to the same station list and values run it alike)
handlerRuns ==
  {[failed |-> TransientFailure(out),
    nextStations |-> nextStations(out.payload),
    nextVals |-> nextVals(out.payload),
    written |-> writesOf(out.payload)] : out \in {o \in PollOutcomes : bridgeSends(o)}}

\* live: the handler of 'receiver:live', run with the payload a poll pushed.
\* setStations gets a new array, so App
\* re-renders, the memos on [stations] are recomputed after valuesRef.current
\* was replaced, and the effects that depend on pts / vals / stations / values re-run
handler ==
  /\ app = "live"
  /\ subscribed
  /\ \E run \in handlerRuns :
       /\ srcResult' = (IF run.failed THEN "failed" ELSE "ok")
       /\ stations' = run.nextStations
       /\ valuesRef' = run.nextVals
       /\ valsArray' = useMemoValsArray(valsArray, TRUE, stations', valuesRef')
       /\ written' = run.written
       /\ Rerender(mode, stations', valsArray', valuesRef', stationValsRef, TRUE, TRUE)
  /\ UNCHANGED staleRun
  /\ toggleHist' = <<>>
  /\ UNCHANGED <<app, bridge, py, ipc, grid, ctx2d, shade, wave, data, mode, stationValsRef, pyPending, mapSize, view>>

\* the toggle button: setMode(m => (m === 'pin' ? 'overlay' : 'pin')).  In the
\* local App stationPts is a new array in every render, a dependency of the loop effect
Toggle ==
  /\ app \in {"live", "local"}
  /\ ~crashed
  /\ mode' = toggle(mode)
  /\ valsArray' = useMemoValsArray(valsArray, FALSE, stations, valuesRef)
  /\ Rerender(mode', stations, valsArray', valuesRef, stationValsRef, app = "local", FALSE)
  /\ toggleHist' =
       (IF Len(toggleHist) = 2 THEN <<toggleHist[2]>> ELSE toggleHist)
         \o <<[mode |-> mode, mounts |-> Mounts(RT, pinsMounted), painted |-> Painted(RT)]>>
  /\ UNCHANGED staleRun
  /\ UNCHANGED <<app, bridge, py, ipc, grid, ctx2d, shade, wave, data, srcResult, stations, valuesRef, stationValsRef, pyPending, mapSize, view,
                 written>>

\* the browser runs the requested frame callback p
RunFrame(p) ==
  /\ UNCHANGED <<app, bridge, py, ipc, grid, ctx2d, shade, wave, data, srcResult, mode, stations, valuesRef, stationValsRef, valsArray, subscribed,
                 pyPending, crashed, pinsMounted, pins, pinsTimer, mapSize, view,
                 written, toggleHist>>
  /\ LET r0 == [RT EXCEPT !.pending = @ \ {p}]
         cl == acts[p.act]
     IN /\ staleRun' = (staleRun \/ ~cl.alive)
        /\ \E r1 \in {Collect(IF cl.kind = "tick"
                                 THEN tick(r0, p.act, mapSize, view, stationValsRef)
                                 ELSE animate(r0, p.act, stationValsRef))} : SetRT(r1)

Frame == \E p \in pending : RunFrame(p)

\* the listeners registered for an event run in the order they were registered
RECURSIVE runSyncs(_, _, _, _, _)
runSyncs(r, S, size, vw, refNow) ==
  IF S = {} THEN r
  ELSE LET a == CHOOSE x \in S : \A y \in S : x <= y
       IN runSyncs(sync(r, a, size, vw, refNow), S \ {a}, size, vw, refNow)

Stale(S) == \E a \in S : ~acts[a].alive

\* the user pans the map: 'move'
MapMove ==
  /\ app \in {"live", "local"}
  /\ \E v \in Views \ {view} :
       /\ view' = v
       /\ SetRT(Collect(runSyncs(RT, onMove, mapSize, v, stationValsRef)))
  /\ staleRun' = (staleRun \/ Stale(onMove))
  /\ UNCHANGED <<app, bridge, py, ipc, grid, ctx2d, shade, wave, data, srcResult, mode, stations, valuesRef, stationValsRef, valsArray, subscribed,
                 pyPending, crashed, pinsMounted, pins, pinsTimer, mapSize,
                 written, toggleHist>>

\* the user zooms the map: Leaflet fires 'zoom' and then 'move'
MapZoom ==
  /\ app \in {"live", "local"}
  /\ \E v \in Views \ {view} :
       /\ view' = v
       /\ SetRT(Collect(runSyncs(runSyncs(RT, onZoom, mapSize, v, stationValsRef),
                                 onMove, mapSize, v, stationValsRef)))
  /\ staleRun' = (staleRun \/ Stale(onZoom \cup onMove))
  /\ UNCHANGED <<app, bridge, py, ipc, grid, ctx2d, shade, wave, data, srcResult, mode, stations, valuesRef, stationValsRef, valsArray, subscribed,
                 pyPending, crashed, pinsMounted, pins, pinsTimer, mapSize,
                 written, toggleHist>>

\* the window is resized: 'resize'
WindowResize ==
  /\ app \in {"live", "local"}
  /\ \E sz \in MapSizes \ {mapSize} :
       /\ mapSize' = sz
       /\ SetRT(Collect(runSyncs(RT, onResize, sz, view, stationValsRef)))
  /\ staleRun' = (staleRun \/ Stale(onResize))
  /\ UNCHANGED <<app, bridge, py, ipc, grid, ctx2d, shade, wave, data, srcResult, mode, stations, valuesRef, stationValsRef, valsArray, subscribed,
                 pyPending, crashed, pinsMounted, pins, pinsTimer, view,
                 written, toggleHist>>

\* (variant) the interval overwrites only the first element of the array in place
replaceRefInPlace(prev, a, b) == <<a, At(prev, 2)>>

\* stationValsRef.current = [a, b]: a new array replaces the old one
replaceRef(prev, a, b) == <<a, b>>

writesLocal(a, b) == [id \in {STATIONS[1], STATIONS[2]} |-> IF id = STATIONS[1] THEN a ELSE b]

\* local: setInterval(() => { stationValsRef.current = [rndVal(), rndVal()] }, 1000)
LocalStream ==
  /\ app = "local"
  /\ ~crashed
  /\ \E a \in RndPool, b \in RndPool :
       /\ stationValsRef' = replaceRef(stationValsRef, Num(a), Num(b))
       /\ written' = writesLocal(Num(a), Num(b))
  /\ UNCHANGED staleRun
  /\ UNCHANGED <<app, bridge, py, ipc, grid, ctx2d, shade, wave, data, srcResult, mode, stations, valuesRef, valsArray, subscribed, pyPending,
                 crashed, pinsMounted, pins, pinsTimer, circleRefs, acts, pending,
                 onMove, onZoom, onResize, canvas, pane, canvasRef, fxCanvas, fxLoop,
                 fxPulse, mapSize, view, toggleHist>>

\* what the get-data call may settle with: a rejection, text that is no JSON,
\* JSON whose value is a number, a string or missing
PyOutcomes ==
  {[kind |-> "reject", value |-> Undefined], [kind |-> "text", value |-> Undefined]}
    \cup {[kind |-> "json", value |-> x] : x \in {Num(150), Str, Undefined}}

\* local: the getData() call made on mount settles: setPyStatus, and the stream
\* is seeded with [j.value, -j.value] if typeof j.value === 'number'
getDataSettled ==
  /\ app = "local"
  /\ ~crashed
  /\ pyPending
  /\ pyPending' = FALSE
  /\ \E out \in PyOutcomes :
       LET seeds == out.kind = "json" /\ IsNumber(out.value) IN
       /\ stationValsRef' = (IF seeds THEN replaceRef(stationValsRef, out.value, Num(-out.value.v))
                                      ELSE stationValsRef)
       /\ written' = (IF seeds THEN writesLocal(out.value, Num(-out.value.v)) ELSE written)
       /\ Rerender(mode, stations, valsArray, valuesRef, stationValsRef', TRUE, FALSE)
  /\ UNCHANGED staleRun
  /\ toggleHist' = <<>>
  /\ UNCHANGED <<app, bridge, py, ipc, grid, ctx2d, shade, wave, data, srcResult, mode, stations, valuesRef, valsArray, mapSize, view>>

\* local: the "Fetch Python" button: setPyStatus re-renders App
fetchPython ==
  /\ app = "local"
  /\ ~crashed
  /\ Rerender(mode, stations, valsArray, valuesRef, stationValsRef, TRUE, FALSE)
  /\ UNCHANGED staleRun
  /\ toggleHist' = <<>>
  /\ UNCHANGED <<app, bridge, py, ipc, grid, ctx2d, shade, wave, data, srcResult, mode, stations, valuesRef, stationValsRef, valsArray, pyPending,
                 mapSize, view, written>>

\* local: StationPins' setInterval(() => force(...), 200) re-renders StationPins
pinsForce ==
  /\ app = "local"
  /\ pinsTimer
  /\ pins' = pinsLocal(stationValsRef)
  /\ UNCHANGED staleRun
  /\ UNCHANGED <<app, bridge, py, ipc, grid, ctx2d, shade, wave, data, srcResult, mode, stations, valuesRef, stationValsRef, valsArray, subscribed,
                 pyPending, crashed, pinsMounted, pinsTimer, circleRefs, acts, pending,
                 onMove, onZoom, onResize, canvas, pane, canvasRef, fxCanvas, fxLoop,
                 fxPulse, mapSize, view, written, toggleHist>>

\* live: a poll of the bridge after which no listener runs: nothing was sent,
\* or the renderer has no listener registered
pollQuiet ==
  /\ app = "live"
  /\ \E failed \in {TransientFailure(out) :
                       out \in {o \in PollOutcomes : ~bridgeSends(o) \/ ~subscribed}} :
       srcResult' = (IF failed THEN "failed" ELSE "ok")
  /\ UNCHANGED <<app, bridge, py, ipc, grid, ctx2d, shade, wave, data, mode, stations, valuesRef, stationValsRef, valsArray,
                 subscribed, pyPending, crashed, pinsMounted, pins, pinsTimer,
                 circleRefs, acts, pending, onMove, onZoom, onResize, canvas, pane,
                 canvasRef, fxCanvas, fxLoop, fxPulse, mapSize, view, staleRun,
                 written, toggleHist>>

\* what one read of stream.json may meet: readFileSync or JSON.parse throws, or
\* the file parses to some records
DataPool == {<<>>, <<"a">>, <<"a", "b">>}

ReadOutcomes ==
  {[throws |-> TRUE, value |-> <<>>]} \cup {[throws |-> FALSE, value |-> d] : d \in DataPool}

\* (variant) a failed read empties the cache
readDataResets(prev, out) == IF out.throws THEN <<>> ELSE out.value

\* try { const raw = fs.readFileSync("stream.json"); data = JSON.parse(raw) } catch { }
readData(prev, out) == IF out.throws THEN prev ELSE out.value

\* server: the 100 ms interval that reads stream.json
readStream ==
  /\ app = "server"
  /\ \E out \in ReadOutcomes :
       /\ data' = readData(data, out)
       /\ srcResult' = (IF out.throws THEN "failed" ELSE "ok")
  /\ UNCHANGED <<app, bridge, py, ipc, grid, ctx2d, shade, wave, mode, stations, valuesRef, stationValsRef, valsArray,
                 subscribed, pyPending, crashed, pinsMounted, pins, pinsTimer,
                 circleRefs, acts, pending, onMove, onZoom, onResize, canvas, pane,
                 canvasRef, fxCanvas, fxLoop, fxPulse, mapSize, view, staleRun,
                 written, toggleHist>>

\* what one 'receiver:wave' request may meet: fetch of /wave rejects, or a
\* response arrives: its status is OK or not, its body parses as JSON (to a
\* packet with values) or not
WaveOutcomes ==
  {[reject |-> TRUE, ok |-> FALSE, json |-> FALSE]}
    \cup {[reject |-> FALSE, ok |-> o, json |-> j] : o, j \in BOOLEAN}

\* the detail fetch failed: fetch threw, the status was not OK, or the body
\* could not be parsed
WaveFails(out) == out.reject \/ ~out.ok \/ ~out.json

\* (variant) the handler returns the body without looking at the status
receiverWaveIgnoresStatus(out) ==
  IF out.reject \/ ~out.json THEN "rejected" ELSE "fulfilled"

\* ipcMain.handle('receiver:wave', ...): res = await fetch(url);
\* if (!res.ok) throw new Error(...); return res.json().  What the promise of
\* window.api.invoke('receiver:wave', id) becomes
receiverWave(out) ==
  IF out.reject THEN "rejected"
  ELSE IF ~out.ok THEN "rejected"
  ELSE IF ~out.json THEN "rejected"
  ELSE "fulfilled"

\* (variant) every popup button asks for the first station of the list
onWaveFirst(i) == pins[1].id

\* StationPins: <button onClick={() => onWave(s.id)}> in the popup of the i-th marker
onWave(i) == pins[i].id

\* fetchWave: try { pkt = await invoke('receiver:wave', id); console.log('wave',
\* id, pkt.fs, pkt.values.length, ...) } catch (e) { console.error('wave error', e) }
fetchWaveLogs(invoked) == IF invoked = "rejected" THEN "wave error" ELSE "wave"

\* live: the user presses "Fetch 1s waveform" in the popup of the i-th marker.
\* The continuation after the await reads only id and pkt, so the request and
\* its settlement are one step.  An async function whose body catches every
\* exception returns a promise that is fulfilled
fetchWave ==
  /\ app = "live"
  /\ pinsMounted
  /\ \E i \in DOMAIN pins, out \in WaveOutcomes :
       LET invoked == receiverWave(out) IN
       wave' = [clicked |-> pins[i].id, sent |-> onWave(i), invoke |-> invoked,
                log |-> fetchWaveLogs(invoked), returned |-> "fulfilled",
                failed |-> WaveFails(out)]
  /\ UNCHANGED <<app, bridge, py, ipc, grid, ctx2d, shade, data, srcResult, mode, stations, valuesRef, stationValsRef,
                 valsArray, subscribed, pyPending, crashed, pinsMounted, pins,
                 pinsTimer, circleRefs, acts, pending, onMove, onZoom, onResize,
                 canvas, pane, canvasRef, fxCanvas, fxLoop, fxPulse, mapSize, view,
                 staleRun, written, toggleHist>>

\* the numbers the colour mapping is called with: every value of two decimals
\* from -MaxShade to MaxShade hundredths, two values far outside, and NaN
MaxShade == 400

FarShade == 100000

ShadeInputs ==
  {Num(k) : k \in -MaxShade..MaxShade} \cup {Num(-FarShade), Num(FarShade), NaN}

\* colour: valueToColor(v) and valToRGB(v) are called with a number v
callValueToColor ==
  /\ app = "colour"
  /\ \E x \in ShadeInputs :
       shade' = [called |-> TRUE, v |-> x, colour |-> valueToColor(x), rgb |-> valToRGB(x)]
  /\ UNCHANGED <<app, bridge, py, ipc, grid, ctx2d, wave, data, srcResult, mode, stations, valuesRef,
                 stationValsRef, valsArray, subscribed, pyPending, crashed,
                 pinsMounted, pins, pinsTimer, circleRefs, acts, pending, onMove,
                 onZoom, onResize, canvas, pane, canvasRef, fxCanvas, fxLoop,
                 fxPulse, mapSize, view, staleRun, written, toggleHist>>

\* the inputs the grid loop is called with: viewport sizes (one of them no
\* multiple of the cell size), projected stations (one on a cell origin, one
\* outside the viewport) and values (one missing)
GridSizes == {<<0, 0>>, <<8, 8>>, <<12, 8>>, <<16, 16>>, <<20, 12>>}

PxPool == {[x |-> 4, y |-> 4], [x |-> 12, y |-> 4], [x |-> 8, y |-> 8],
           [x |-> -3, y |-> 20]}

GridVals == {Num(-300), Num(0), Num(150), Num(300), Undefined}

\* grid: one frame of draw for a map of w by h pixels, stations projected to
\* sPx and the values vals
callDraw ==
  /\ app = "grid"
  /\ ~grid.called
  /\ \E size \in GridSizes,
        sPx \in UNION {[1..n -> PxPool] : n \in 0..2},
        vals \in UNION {[1..n -> GridVals] : n \in 0..2} :
       grid' = [called |-> TRUE, w |-> size[1], h |-> size[2], sPx |-> sPx,
                vals |-> vals, cells |-> drawCells(size[1], size[2], sPx, vals)]
  /\ UNCHANGED <<app, bridge, py, ipc, shade, ctx2d, wave, data, srcResult, mode, stations, valuesRef,
                 stationValsRef, valsArray, subscribed, pyPending, crashed,
                 pinsMounted, pins, pinsTimer, circleRefs, acts, pending, onMove,
                 onZoom, onResize, canvas, pane, canvasRef, fxCanvas, fxLoop,
                 fxPulse, mapSize, view, staleRun, written, toggleHist>>

(***************************************************************************)
(* The preload script: window.api.on / off over ipcRenderer                 *)
(***************************************************************************)
\* the renderer's functions that are passed as listeners
Listeners == {"f", "g"}

\* on() calls made in one run
MaxOn == 3

\* const wrapped = (_evt, ...args) => listener(...args): a new function per call
wrapped(k) == [fn |-> "wrapped", of |-> k]

\* a function of the renderer as it is handed to ipcRenderer
given(cb) == [fn |-> cb, of |-> 0]

\* (variant) removeListener drops every listener of the channel
removeEvery(ls, fn) == <<>>

\* EventEmitter.removeListener(channel, fn): the most recently added instance
\* of fn is taken out of the channel's listeners; without one nothing changes
removeListener(ls, fn) ==
  LET at == {i \in 1..Len(ls) : ls[i] = fn} IN
  IF at = {} THEN ls
  ELSE LET m == CHOOSE i \in at : \A j \in at : j <= i IN [i \in 1..(Len(ls) - 1) |-> IF i < m THEN ls[i] ELSE ls[i + 1]]

\* api.on(channel, listener): registers wrapped and returns the function that
\* removes wrapped
apiOn ==
  /\ app = "preload"
  /\ Len(ipc.calls) < MaxOn
  /\ \E cb \in Listeners :
       ipc' = [ipc EXCEPT
                 !.calls = Append(@, [cb |-> cb, unsubscribed |-> 0, off |-> FALSE]),
                 !.listeners = Append(@, wrapped(Len(ipc.calls) + 1))]
  /\ UNCHANGED <<app, bridge, py, grid, shade, ctx2d, wave, data, srcResult, mode, stations, valuesRef,
                 stationValsRef, valsArray, subscribed, pyPending, crashed,
                 pinsMounted, pins, pinsTimer, circleRefs, acts, pending, onMove,
                 onZoom, onResize, canvas, pane, canvasRef, fxCanvas, fxLoop,
                 fxPulse, mapSize, view, staleRun, written, toggleHist>>

\* the function returned by the k-th on() is called (a first or a second time):
\* ipcRenderer.removeListener(channel, wrapped)
unsubscribe ==
  /\ app = "preload"
  /\ \E k \in 1..Len(ipc.calls) :
       /\ ipc.calls[k].unsubscribed < 2
       /\ ipc' = [ipc EXCEPT
                    !.calls[k].unsubscribed = @ + 1,
                    !.listeners = removeListener(@, wrapped(k))]
  /\ UNCHANGED <<app, bridge, py, grid, shade, ctx2d, wave, data, srcResult, mode, stations, valuesRef,
                 stationValsRef, valsArray, subscribed, pyPending, crashed,
                 pinsMounted, pins, pinsTimer, circleRefs, acts, pending, onMove,
                 onZoom, onResize, canvas, pane, canvasRef, fxCanvas, fxLoop,
                 fxPulse, mapSize, view, staleRun, written, toggleHist>>

\* api.off(channel, listener): ipcRenderer.removeListener(channel, listener),
\* with the function the renderer passed.  calls[k].off records that off was
\* called with the listener of the k-th on() after that call
apiOff ==
  /\ app = "preload"
  /\ \E cb \in Listeners :
       /\ \E k \in 1..Len(ipc.calls) : ipc.calls[k].cb = cb /\ ~ipc.calls[k].off
       /\ ipc' = [ipc EXCEPT
                    !.calls = [k \in 1..Len(@) |->
                                 IF @[k].cb = cb THEN [@[k] EXCEPT !.off = TRUE] ELSE @[k]],
                    !.listeners = removeListener(@, given(cb))]
  /\ UNCHANGED <<app, bridge, py, grid, shade, ctx2d, wave, data, srcResult, mode, stations, valuesRef,
                 stationValsRef, valsArray, subscribed, pyPending, crashed,
                 pinsMounted, pins, pinsTimer, circleRefs, acts, pending, onMove,
                 onZoom, onResize, canvas, pane, canvasRef, fxCanvas, fxLoop,
                 fxPulse, mapSize, view, staleRun, written, toggleHist>>

\* an event arrives on the channel: every listener of the channel is called,
\* and wrapped calls the listener of its on().  delivered are the on() calls
\* whose listener was called for this event
ipcEmit ==
  /\ app = "preload"
  /\ ipc' = [ipc EXCEPT
               !.delivered = {k \in 1..Len(ipc.calls) :
                                \E i \in 1..Len(ipc.listeners) : ipc.listeners[i] = wrapped(k)}]
  /\ UNCHANGED <<app, bridge, py, grid, shade, ctx2d, wave, data, srcResult, mode, stations, valuesRef,
                 stationValsRef, valsArray, subscribed, pyPending, crashed,
                 pinsMounted, pins, pinsTimer, circleRefs, acts, pending, onMove,
                 onZoom, onResize, canvas, pane, canvasRef, fxCanvas, fxLoop,
                 fxPulse, mapSize, view, staleRun, written, toggleHist>>

(***************************************************************************)
(* The main process: ipcMain.handle('get-data')                             *)
(***************************************************************************)
Whitespace == {" ", "\n"}

\* String.prototype.trim on a string held as a sequence of characters
RECURSIVE trimStart(_)
trimStart(str) ==
  IF str # <<>> /\ Head(str) \in Whitespace THEN trimStart(Tail(str)) ELSE str

RECURSIVE trimEnd(_)
trimEnd(str) ==
  IF str # <<>> /\ str[Len(str)] \in Whitespace
    THEN trimEnd(SubSeq(str, 1, Len(str) - 1)) ELSE str

trim(str) == trimEnd(trimStart(str))

\* what d.toString() can be for a stdout chunk
Chunks == {<<" ", "a">>, <<"b", "\n">>, <<"\n">>}

\* stdout chunks of one process
MaxChunks == 2

\* the exit codes 'close' reports for a process that was started: 0, 1, or
\* null when a signal ended it
ExitCodes == {Num(0), Num(100), Null}

\* the code 'close' reports after a failed spawn (a negative errno)
SpawnFailedCode == Num(-200)

\* (variant) a later resolve / reject replaces the settled value
settleAgain(q, state, value) ==
  [q EXCEPT !.promise = [state |-> state, value |-> value],
            !.settles = IF q.promise = [state |-> state, value |-> value] THEN @ ELSE @ + 1,
            !.settleCalls = @ + 1]

\* resolve(value) / reject(error) of the handler's promise: only the first
\* call settles it
settle(q, state, value) ==
  [q EXCEPT !.promise = IF @.state = "pending" THEN [state |-> state, value |-> value] ELSE @,
            !.settles = IF q.promise.state = "pending" THEN @ + 1 ELSE @,
            !.settleCalls = @ + 1]

\* ipcMain.handle('get-data'): spawn(cmd, args, ...), which starts the
\* process or fails to; out = '', err = ''
getData ==
  /\ app = "python"
  /\ py.phase = "idle"
  /\ \E ok \in BOOLEAN : py' = [py EXCEPT !.phase = "running", !.spawned = ok]
  /\ UNCHANGED <<app, bridge, ipc, grid, shade, ctx2d, wave, data, srcResult, mode, stations, valuesRef,
                 stationValsRef, valsArray, subscribed, pyPending, crashed,
                 pinsMounted, pins, pinsTimer, circleRefs, acts, pending, onMove,
                 onZoom, onResize, canvas, pane, canvasRef, fxCanvas, fxLoop,
                 fxPulse, mapSize, view, staleRun, written, toggleHist>>

\* py.stdout.on('data', d => { out += d.toString() })
pyStdout ==
  /\ app = "python"
  /\ py.phase = "running" /\ py.spawned /\ ~py.closed
  /\ Len(py.chunks) < MaxChunks
  /\ \E d \in Chunks :
       py' = [py EXCEPT !.out = @ \o d, !.chunks = Append(@, d)]
  /\ UNCHANGED <<app, bridge, ipc, grid, shade, ctx2d, wave, data, srcResult, mode, stations, valuesRef,
                 stationValsRef, valsArray, subscribed, pyPending, crashed,
                 pinsMounted, pins, pinsTimer, circleRefs, acts, pending, onMove,
                 onZoom, onResize, canvas, pane, canvasRef, fxCanvas, fxLoop,
                 fxPulse, mapSize, view, staleRun, written, toggleHist>>

\* py.on('error', e => reject(new Error('Failed to start Python: ' + e.message)))
\* no kill, message or abort signal is used, so 'error' is a failed spawn
pyError ==
  /\ app = "python"
  /\ py.phase = "running" /\ ~py.spawned /\ ~py.errorFired
  /\ py' = [settle(py, "rejected", <<"Failed to start Python">>) EXCEPT !.errorFired = TRUE]
  /\ UNCHANGED <<app, bridge, ipc, grid, shade, ctx2d, wave, data, srcResult, mode, stations, valuesRef,
                 stationValsRef, valsArray, subscribed, pyPending, crashed,
                 pinsMounted, pins, pinsTimer, circleRefs, acts, pending, onMove,
                 onZoom, onResize, canvas, pane, canvasRef, fxCanvas, fxLoop,
                 fxPulse, mapSize, view, staleRun, written, toggleHist>>

\* py.on('close', code => { if (code === 0) resolve(out.trim())
\* else reject(new Error('Python exited with code ' + code)) })
pyClose ==
  /\ app = "python"
  /\ py.phase = "running" /\ ~py.closed
  /\ \E code \in (IF py.spawned THEN ExitCodes ELSE {SpawnFailedCode}) :
       py' = [(IF code = Num(0) THEN settle(py, "resolved", trim(py.out))
               ELSE settle(py, "rejected", <<"Python exited with code">>))
              EXCEPT !.closed = TRUE, !.code = code]
  /\ UNCHANGED <<app, bridge, ipc, grid, shade, ctx2d, wave, data, srcResult, mode, stations, valuesRef,
                 stationValsRef, valsArray, subscribed, pyPending, crashed,
                 pinsMounted, pins, pinsTimer, circleRefs, acts, pending, onMove,
                 onZoom, onResize, canvas, pane, canvasRef, fxCanvas, fxLoop,
                 fxPulse, mapSize, view, staleRun, written, toggleHist>>

(***************************************************************************)
(* The main process: windows and the receiver bridge                        *)
(***************************************************************************)
\* windows created, polls issued and explicit start calls in one run
MaxWindows == 2

MaxPolls == 3

MaxStarts == 3

\* stopReceiverBridge(): if (timer) { clearInterval(timer); timer = null };
\* removeHandler('receiver:wave') if ipcMain._events has that channel.
\* _events holds the channels with ipcMain.on listeners; the handlers of
\* ipcMain.handle are kept apart from it
stopReceiverBridge(b) ==
  LET c == IF b.timer # 0
             THEN [b EXCEPT !.intervals = {i \in @ : i.id # b.timer}, !.timer = 0]
             ELSE b
  IN [(IF "receiver:wave" \in c.events
         THEN [c EXCEPT !.handlers = @ \ {"receiver:wave"}] ELSE c)
      EXCEPT !.last = "stop", !.threw = FALSE]

\* startReceiverBridge(win): stopReceiverBridge(); timer = setInterval(...);
\* ipcMain.handle('receiver:wave', ...), which throws when the channel has a
\* handler already
startReceiverBridge(b, w) ==
  LET s == stopReceiverBridge(b)
      id == s.timersMade + 1
      t == [s EXCEPT !.timer = id, !.timersMade = id,
                     !.intervals = @ \cup {[id |-> id, win |-> w]},
                     !.last = "start"]
  IN IF "receiver:wave" \in t.handlers
       THEN [t EXCEPT !.threw = TRUE]
       ELSE [t EXCEPT !.handlers = @ \cup {"receiver:wave"}]

\* createWindow(): a new BrowserWindow
createWindow(b) ==
  [b EXCEPT !.windowsMade = @ + 1, !.windows = @ \cup {b.windowsMade + 1}]

\* app.whenReady().then(...): ipcMain.on('ping', ...); createWindow();
\* startReceiverBridge(BrowserWindow.getAllWindows()[0])
whenReady ==
  /\ app = "main"
  /\ bridge.phase = "launch"
  /\ bridge' = startReceiverBridge(
                  [createWindow(bridge) EXCEPT !.phase = "running", !.events = {"ping"}],
                  bridge.windowsMade + 1)
  /\ UNCHANGED <<app, py, ipc, grid, shade, ctx2d, wave, data, srcResult, mode, stations, valuesRef,
                 stationValsRef, valsArray, subscribed, pyPending, crashed,
                 pinsMounted, pins, pinsTimer, circleRefs, acts, pending, onMove,
                 onZoom, onResize, canvas, pane, canvasRef, fxCanvas, fxLoop,
                 fxPulse, mapSize, view, staleRun, written, toggleHist>>

\* the user closes a window; with the last one 'window-all-closed' runs
\* stopReceiverBridge()
closeWindow ==
  /\ app = "main"
  /\ \E w \in bridge.windows :
       LET b == [bridge EXCEPT !.windows = @ \ {w}] IN
       bridge' = IF b.windows = {} THEN stopReceiverBridge(b) ELSE b
  /\ UNCHANGED <<app, py, ipc, grid, shade, ctx2d, wave, data, srcResult, mode, stations, valuesRef,
                 stationValsRef, valsArray, subscribed, pyPending, crashed,
                 pinsMounted, pins, pinsTimer, circleRefs, acts, pending, onMove,
                 onZoom, onResize, canvas, pane, canvasRef, fxCanvas, fxLoop,
                 fxPulse, mapSize, view, staleRun, written, toggleHist>>

\* app.on('activate'): if (BrowserWindow.getAllWindows().length === 0) createWindow()
activate ==
  /\ app = "main"
  /\ bridge.phase = "running"
  /\ bridge.windowsMade < MaxWindows
  /\ bridge' = IF bridge.windows = {} THEN createWindow(bridge) ELSE bridge
  /\ UNCHANGED <<app, py, ipc, grid, shade, ctx2d, wave, data, srcResult, mode, stations, valuesRef,
                 stationValsRef, valsArray, subscribed, pyPending, crashed,
                 pinsMounted, pins, pinsTimer, circleRefs, acts, pending, onMove,
                 onZoom, onResize, canvas, pane, canvasRef, fxCanvas, fxLoop,
                 fxPulse, mapSize, view, staleRun, written, toggleHist>>

\* app.on('before-quit'): stopReceiverBridge()
beforeQuit ==
  /\ app = "main"
  /\ bridge.phase = "running"
  /\ bridge' = [stopReceiverBridge(bridge) EXCEPT !.phase = "quitting"]
  /\ UNCHANGED <<app, py, ipc, grid, shade, ctx2d, wave, data, srcResult, mode, stations, valuesRef,
                 stationValsRef, valsArray, subscribed, pyPending, crashed,
                 pinsMounted, pins, pinsTimer, circleRefs, acts, pending, onMove,
                 onZoom, onResize, canvas, pane, canvasRef, fxCanvas, fxLoop,
                 fxPulse, mapSize, view, staleRun, written, toggleHist>>

\* a tick of an interval: the callback starts fetch(`${base}/live`) and waits.
\* The poll is in flight with its issue number and the window of its closure
pollTick ==
  /\ app = "main"
  /\ bridge.issued < MaxPolls
  /\ \E i \in bridge.intervals :
       bridge' = [bridge EXCEPT !.issued = @ + 1,
                                !.polls = @ \cup {[n |-> bridge.issued + 1, win |-> i.win]}]
  /\ UNCHANGED <<app, py, ipc, grid, shade, ctx2d, wave, data, srcResult, mode, stations, valuesRef,
                 stationValsRef, valsArray, subscribed, pyPending, crashed,
                 pinsMounted, pins, pinsTimer, circleRefs, acts, pending, onMove,
                 onZoom, onResize, canvas, pane, canvasRef, fxCanvas, fxLoop,
                 fxPulse, mapSize, view, staleRun, written, toggleHist>>

\* a poll in flight gets its answer (res.ok) and the callback goes on:
\* win.webContents.send('receiver:live', json), which throws into the catch
\* when the window is destroyed.  The renderer's handler stores the payload:
\* stored is the issue number of the poll whose snapshot it holds
pollReturns ==
  /\ app = "main"
  /\ \E q \in bridge.polls :
       bridge' = IF q.win \in bridge.windows
                   THEN [bridge EXCEPT !.polls = @ \ {q}, !.sent = @ + 1,
                                       !.stored = q.n, !.received = @ \cup {q.win}]
                   ELSE [bridge EXCEPT !.polls = @ \ {q}]
  /\ UNCHANGED <<app, py, ipc, grid, shade, ctx2d, wave, data, srcResult, mode, stations, valuesRef,
                 stationValsRef, valsArray, subscribed, pyPending, crashed,
                 pinsMounted, pins, pinsTimer, circleRefs, acts, pending, onMove,
                 onZoom, onResize, canvas, pane, canvasRef, fxCanvas, fxLoop,
                 fxPulse, mapSize, view, staleRun, written, toggleHist>>

\* startReceiverBridge(win) called once more, for an open window
callStart ==
  /\ app = "main"
  /\ bridge.phase = "running"
  /\ bridge.timersMade < MaxStarts
  /\ \E w \in bridge.windows : bridge' = startReceiverBridge(bridge, w)
  /\ UNCHANGED <<app, py, ipc, grid, shade, ctx2d, wave, data, srcResult, mode, stations, valuesRef,
                 stationValsRef, valsArray, subscribed, pyPending, crashed,
                 pinsMounted, pins, pinsTimer, circleRefs, acts, pending, onMove,
                 onZoom, onResize, canvas, pane, canvasRef, fxCanvas, fxLoop,
                 fxPulse, mapSize, view, staleRun, written, toggleHist>>

\* stopReceiverBridge() called once more
callStop ==
  /\ app = "main"
  /\ bridge.phase = "running"
  /\ bridge' = stopReceiverBridge(bridge)
  /\ UNCHANGED <<app, py, ipc, grid, shade, ctx2d, wave, data, srcResult, mode, stations, valuesRef,
                 stationValsRef, valsArray, subscribed, pyPending, crashed,
                 pinsMounted, pins, pinsTimer, circleRefs, acts, pending, onMove,
                 onZoom, onResize, canvas, pane, canvasRef, fxCanvas, fxLoop,
                 fxPulse, mapSize, view, staleRun, written, toggleHist>>

Next ==
  \/ handler
  \/ getData
  \/ pyStdout
  \/ pyError
  \/ pyClose
  \/ callDraw
  \/ apiOn
  \/ unsubscribe
  \/ apiOff
  \/ ipcEmit
  \/ callValueToColor
  \/ pollQuiet
  \/ readStream
  \/ Toggle
  \/ Frame
  \/ MapMove
  \/ MapZoom
  \/ WindowResize
  \/ LocalStream
  \/ getDataSettled
  \/ fetchPython
  \/ pinsForce

Spec == Init /\ [][Next]_vars

\* The browser runs a requested frame callback before the next repaint of the
\* page: weak fairness of Frame.  A frame callback can run exactly when one is
\* requested, so the fairness condition is written with pending # {} for
\* ENABLED <<Frame>>_vars.
FrameFairness == []<>(pending = {}) \/ []<><<Frame>>_vars

FairSpec == Spec /\ FrameFairness

\* the program with the detail requests of the popup buttons.  fetchWave writes
\* no variable but the history variable wave, which no action reads
DetailNext == Next \/ fetchWave

DetailSpec == Init /\ [][DetailNext]_vars

\* the program in a browser without a 2D context
NoContextSpec == InitNoContext /\ [][Next]_vars

\* the main process as the application runs it
MainNext ==
  \/ whenReady
  \/ closeWindow
  \/ activate
  \/ beforeQuit
  \/ pollTick
  \/ pollReturns

\* An interval that is not cleared keeps ticking, and the receiver answers
\* every request: weak fairness of the tick and of the answer
MainSpec == MainInit /\ [][MainNext]_vars /\ WF_vars(pollTick) /\ WF_vars(pollReturns)

\* the bridge's two exported functions called in any sequence
BridgeNext == MainNext \/ callStart \/ callStop

BridgeSpec == MainInit /\ [][BridgeNext]_vars

(***************************************************************************)
(* What is mounted                                                         *)
(***************************************************************************)
Range(f) == {f[i] : i \in DOMAIN f}

Ticks == {p \in pending : acts[p.act].kind = "tick"}

Animates == {p \in pending : acts[p.act].kind = "animate"}

\* StationPins and StationPulse are mounted: markers shown, pulse loop running
MarkersUp ==
  /\ pinsMounted
  /\ fxPulse # 0
  /\ Cardinality(Animates) = 1

MarkersDown ==
  /\ ~pinsMounted
  /\ pins = <<>>
  /\ fxPulse = 0
  /\ Animates = {}
  /\ \A i \in DOMAIN circleRefs : ~circleRefs[i].inst

\* the heat overlay is active: its canvas, its frame loop and its listeners
OverlayUp ==
  /\ fxCanvas # 0
  /\ fxLoop # 0
  /\ pane = {fxCanvas}
  /\ canvasRef = fxCanvas
  /\ Cardinality(Ticks) = 1
  /\ onMove = {fxLoop} /\ onZoom = {fxLoop} /\ onResize = {fxLoop}

OverlayDown ==
  /\ fxCanvas = 0
  /\ fxLoop = 0
  /\ pane = {}
  /\ canvasRef = 0
  /\ Ticks = {}
  /\ onMove = {} /\ onZoom = {} /\ onResize = {}

(***************************************************************************)
(* Claims                                                                  *)
(***************************************************************************)
\* C1: in every reachable state exactly one visualization is mounted: the
\* marker renderers iff mode = 'pin', the heat overlay iff mode = 'overlay';
\* never both and never neither.
C1_ExactlyOneMounted ==
  app \in {"live", "local"} =>
    /\ mode \in {"pin", "overlay"}
    /\ mode = "pin" => MarkersUp /\ OverlayDown
    /\ mode = "overlay" => OverlayUp /\ MarkersDown

\* C2: once the cleanup of the overlay's loop effect has returned (toggle,
\* unmount or effect re-run, also between two frames of a running loop), no
\* frame callback and no move / zoom / resize listener of that activation runs
\* again, so it never resizes or paints the canvas again: no callback of a
\* torn-down activation has run, and none is requested or registered.
C2_NoCallbackAfterCleanup ==
  /\ ~staleRun
  /\ \A p \in pending : acts[p.act].alive
  /\ \A a \in onMove \cup onZoom \cup onResize : acts[a].alive

\* an overlay loop that had painted a frame was torn down, and a frame callback
\* (the pulse's) has run since
C2_Witness ==
  /\ \E i \in DOMAIN toggleHist : toggleHist[i].mode = "overlay" /\ toggleHist[i].painted
  /\ mode = "pin"
  /\ \E j \in DOMAIN circleRefs : circleRefs[j].inst /\ circleRefs[j].col # PathColor

\* the overlay's teardown with what its two cleanups close over
Teardown(r, c, a, raf) == loopCleanup(canvasCleanup(r, c), a, raf)

\* C3: the overlay is leak-free and its teardown idempotent: while it is active
\* there is exactly one attached canvas, at most one requested frame callback
\* and one registration of sync per event; while it is inactive there are none;
\* and running the teardown a second time changes nothing.
C3_LeakFree ==
  /\ (mode = "overlay" /\ ~crashed) =>
       /\ Cardinality(pane) = 1 /\ Cardinality(DOMAIN canvas) = 1
       /\ Cardinality(Ticks) <= 1
       /\ Cardinality(onMove) = 1 /\ Cardinality(onZoom) = 1 /\ Cardinality(onResize) = 1
       /\ Cardinality({a \in DOMAIN acts : acts[a].kind = "tick"}) = 1
  /\ (mode # "overlay" \/ crashed) =>
       /\ pane = {} /\ DOMAIN canvas = {} /\ canvasRef = 0
       /\ Ticks = {}
       /\ onMove = {} /\ onZoom = {} /\ onResize = {}
       /\ {a \in DOMAIN acts : acts[a].kind = "tick"} = {}
  /\ fxLoop # 0 =>
       LET once == Teardown(RT, fxCanvas, fxLoop, acts[fxLoop].raf) IN
       /\ once.pane = {} /\ once.pending = {} /\ once.onMove = {}
       /\ Teardown(once, fxCanvas, fxLoop, acts[fxLoop].raf) = once

\* the overlay was torn down and is active again, with a painted frame
C3_Witness ==
  /\ mode = "overlay"
  /\ Len(toggleHist) = 2
  /\ Painted(RT)

\* C4: two toggles in a row return the mode to what it was, the mode is
\* always 'pin' or 'overlay', and each renderer is mounted as often as before.
C4_DoubleToggle ==
  /\ mode \in {"pin", "overlay"}
  /\ Len(toggleHist) = 2 =>
       /\ toggleHist[1].mode = mode
       /\ toggleHist[1].mounts = Mounts(RT, pinsMounted)
       /\ \A k \in DOMAIN toggleHist[1].mounts \ {"listeners"} : toggleHist[1].mounts[k] <= 1

C4_Witness ==
  /\ Len(toggleHist) = 2
  /\ toggleHist[1].mode = "overlay"
  /\ toggleHist[2].mode = "pin"
  /\ written # EmptyObj

\* what the renderers read for station i of their list
OverlayReads(i) == Nullish(At(sVals(acts[fxLoop], stationValsRef), i), Num(0))

PulseReads(i) == pulseValue(acts[fxPulse], stationValsRef, i)

C6_LastWriteWins ==
  /\ app = "live" =>
       /\ DOMAIN valuesRef = Range(stations)
       /\ DOMAIN valuesRef = DOMAIN written
       /\ \A id \in DOMAIN valuesRef : valuesRef[id] = written[id]
  /\ app = "local" =>
       /\ Len(stationValsRef) = Len(STATIONS)
       /\ written # EmptyObj =>
            \A i \in 1..Len(STATIONS) : stationValsRef[i] = written[STATIONS[i]]

\* an update carried two entries for the same station
C6_Witness ==
  /\ app = "live"
  /\ Len(stations) = 2
  /\ stations[1] = stations[2]
  /\ valuesRef[stations[1]] = Num(150)

\* C7: switching is lossless: whatever the interleaving of pushes and toggles,
\* the overlay interpolates from the same per-station values the markers read
\* from the store, those of the most recently applied update; no mounted
\* renderer holds an older batch.
C7_Lossless ==
  /\ app = "live" =>
       /\ valsArray = [i \in 1..Len(stations) |-> ReadValue(valuesRef, stations[i])]
       /\ \A i \in 1..Len(stations) : valsArray[i] = written[stations[i]]
       /\ fxLoop # 0 =>
            /\ acts[fxLoop].pts = stations
            /\ acts[fxLoop].vals = valsArray
            /\ (Painted(RT) /\ ~canvas[canvasRef].paint.old) =>
                 /\ canvas[canvasRef].paint.pts = stations
                 /\ canvas[canvasRef].paint.vals = valsArray
       /\ fxPulse # 0 =>
            /\ acts[fxPulse].pts = stations
            /\ acts[fxPulse].store = valuesRef
       /\ pinsMounted => pins = pinsLive(stations, valuesRef)
  /\ app = "local" =>
       /\ fxLoop # 0 => acts[fxLoop].byRef /\ acts[fxLoop].pts = STATIONS
       /\ fxPulse # 0 => acts[fxPulse].byRef
       /\ \A i \in 1..Len(STATIONS) :
            /\ fxLoop # 0 => OverlayReads(i) = stationValsRef[i]
            /\ fxPulse # 0 => PulseReads(i) = stationValsRef[i]

\* a push arrived while the overlay was shown, and the markers show it after
\* the switch back
C7_Witness ==
  /\ app = "live"
  /\ mode = "pin"
  /\ Len(toggleHist) = 1
  /\ toggleHist[1].mode = "overlay"
  /\ toggleHist[1].painted
  /\ \E i \in DOMAIN pins : pins[i].text = toFixed2(150)

\* C8: every value a mounted renderer reads is a number.
C8_ReadsAreNumbers ==
  /\ fxLoop # 0 => \A i \in 1..Len(acts[fxLoop].pts) : IsNumber(OverlayReads(i))
  /\ fxPulse # 0 => \A i \in 1..Len(acts[fxPulse].pts) : IsNumber(PulseReads(i))

C10_MalformedDropped ==
  /\ \A id \in DOMAIN valuesRef : IsNumber(valuesRef[id])
  /\ \A i \in DOMAIN stationValsRef : IsNumber(stationValsRef[i])
  /\ ~crashed

\* the value an update carries for a station: 0 if it carries none
BatchValue(batch, id) == IF id \in DOMAIN batch THEN batch[id] ELSE Num(0)

\* C11: writes replace the whole record and are read as a snapshot: the values
\* of every painted frame, of every styled pulse marker and of the live
\* popups all come from one applied update, the one that was the last applied
\* when they were read, however updates and frame callbacks interleave.
C11_SnapshotFrames ==
  /\ (Painted(RT) /\ ~canvas[canvasRef].paint.old) =>
       LET pt == canvas[canvasRef].paint IN
       \A i \in 1..Len(pt.pts) : pt.vals[i] = BatchValue(pt.batch, pt.pts[i])
  /\ \A i \in DOMAIN circleRefs :
       circleRefs[i].lit =>
         circleRefs[i].col = valueToColor(BatchValue(circleRefs[i].batch, circleRefs[i].id))
  /\ (app = "live" /\ pinsMounted) => pins = pinsLive(stations, written)

\* a frame painted from one update is still on the canvas after the next
\* update was applied
C11_Witness ==
  /\ app = "local"
  /\ Painted(RT)
  /\ ~canvas[canvasRef].paint.old
  /\ canvas[canvasRef].paint.batch # EmptyObj
  /\ canvas[canvasRef].paint.batch # written

\* a frame callback of the overlay's loop runs
TickFrame == \E p \in pending : acts[p.act].kind = "tick" /\ RunFrame(p)

\* the overlay canvas has the size sz and shows a frame of the current
\* activation painted for the size sz and the view vw
ShowsFrameFor(cv, ref, sz, vw) ==
  /\ ref # 0
  /\ cv[ref].w = sz[1] /\ cv[ref].h = sz[2]
  /\ cv[ref].paint.drawn /\ ~cv[ref].paint.old
  /\ cv[ref].paint.size = sz
  /\ cv[ref].paint.view = vw

\* C12: every frame of the overlay's loop first resizes the canvas to the
\* map's current size and then projects the stations and paints: after the
\* frame the canvas has the current map size and shows a frame painted for
\* that size and the current view, from the loop's own stations.
C12_ResizeThenDraw ==
  [][TickFrame =>
       /\ ShowsFrameFor(canvas', canvasRef', mapSize', view')
       /\ canvas'[canvasRef'].paint.pts = acts'[fxLoop'].pts]_vars

\* a frame ran (the loop holds the id of a re-requested frame) after the map
\* was resized and panned: the canvas has left its initial 300 x 150 and shows
\* the second view
C12_Witness ==
  /\ fxLoop # 0
  /\ acts[fxLoop].raf = 2
  /\ mapSize = <<8, 8>>
  /\ view = 1
  /\ ShowsFrameFor(canvas, canvasRef, mapSize, view)
  /\ Cardinality(Ticks) = 1

\* the map is panned or zoomed, or the window resized
ViewportEvent == MapMove \/ MapZoom \/ WindowResize

\* C13: while the overlay is active, every 'move', 'zoom' and window 'resize'
\* event resizes the canvas to the map's size and repaints it within the
\* event's handler: when the handler returns the canvas shows a frame for the
\* new size and view, and the requested frame callback has not run yet.
C13_SyncOnEvents ==
  [][(fxLoop # 0 /\ ViewportEvent) =>
       /\ ShowsFrameFor(canvas', canvasRef', mapSize', view')
       /\ canvas'[canvasRef'].paint.pts = acts[fxLoop].pts
       /\ pending' = pending
       /\ acts'[fxLoop'].raf = acts[fxLoop].raf]_vars

\* the canvas shows the second view at the smaller size although no frame
\* callback of this activation has run yet (the loop still holds its first id)
C13_Witness ==
  /\ fxLoop # 0
  /\ acts[fxLoop].raf = 1
  /\ pending = {[id |-> 1, act |-> fxLoop]}
  /\ mapSize = <<8, 8>>
  /\ view = 1
  /\ ShowsFrameFor(canvas, canvasRef, mapSize, view)

\* C14: while the overlay is active its loop never stops: exactly one frame
\* callback of the current loop is requested at any time (each frame requests
\* the next one), and if the overlay stays active for ever, frames of the loop
\* run infinitely often, with or without data updates in between.  (A frame
\* callback can run exactly when one is requested.)
C14_LoopNeverStops ==
  /\ []((ENABLED <<Frame>>_vars) <=> pending # {})
  /\ [](fxLoop # 0 =>
          /\ Cardinality(Ticks) = 1
          /\ \A p \in Ticks : p.act = fxLoop /\ p.id = acts[fxLoop].raf)
  /\ (<>[](fxLoop # 0) => []<><<TickFrame>>_vars)

\* the loop has repainted and re-requested a frame although no update was
\* ever applied
C14_Witness ==
  /\ app = "live"
  /\ written = EmptyObj
  /\ fxLoop # 0
  /\ acts[fxLoop].raf = 2
  /\ Painted(RT)
  /\ Cardinality(Ticks) = 1

\* a step in which the reading source is accessed and the access fails
SourceFails ==
  /\ srcResult' = "failed"
  /\ handler \/ pollQuiet \/ readStream

\* C15: when the reading source fails transiently (the poll of /live throws,
\* answers with a non-OK status or with a body that does not parse; stream.json
\* cannot be read or parsed), the step leaves the station list, every cached
\* value and the server's data exactly as they were: no listener runs, nothing
\* is rendered, nothing is reset to a default.
C15_FailureKeepsCache ==
  [][SourceFails =>
       UNCHANGED <<app, bridge, py, ipc, grid, ctx2d, shade, wave, mode, stations, valuesRef, stationValsRef, valsArray,
                   subscribed, pyPending, crashed, pinsMounted, pins, pinsTimer,
                   circleRefs, acts, pending, onMove, onZoom, onResize, canvas,
                   pane, canvasRef, fxCanvas, fxLoop, fxPulse, mapSize, view,
                   staleRun, written, toggleHist, data>>]_vars

\* a poll has just failed while the renderer listens and holds a pushed station
\* list with a pushed value
C15_Witness ==
  /\ app = "live"
  /\ srcResult = "failed"
  /\ subscribed
  /\ Len(stations) = 2
  /\ Lookup(valuesRef, stations[1]) = Num(150)

\* C16: a failed detail fetch (fetch of /wave rejects, answers with a non-OK
\* status or with a body that does not parse) reaches the caller of the
\* 'receiver:wave' request, fetchWave, as a rejected request, which it logs as
\* 'wave error'; the step raises nothing in the renderer and leaves every frame
\* callback, loop and listener as it was.
C16_WaveFailureRejects ==
  [][(fetchWave /\ wave'.failed) =>
       /\ wave'.invoke = "rejected"
       /\ wave'.log = "wave error"
       /\ crashed' = crashed
       /\ staleRun' = staleRun
       /\ UNCHANGED <<acts, pending, fxLoop, fxPulse, fxCanvas, onMove, onZoom,
                      onResize, canvas, canvasRef, circleRefs>>]_vars

\* a detail fetch has failed while frame callbacks are requested and the
\* renderer has not thrown
C16_Witness ==
  /\ wave.failed
  /\ wave.invoke = "rejected"
  /\ wave.clicked = "WAR2"
  /\ pending # {}
  /\ ~crashed

\* C17: a detail request made from a station's popup forwards that station's
\* id to 'receiver:wave', and the step, whether the request is fulfilled or
\* rejected, leaves the reading store, the station list and the mode unchanged.
C17_WaveForwardsId ==
  /\ [](wave.sent = wave.clicked)
  /\ [][fetchWave => UNCHANGED <<valuesRef, stationValsRef, valsArray, stations,
                                  pins, mode>>]_vars

\* the popup of the second marker, a station other than the first, was used
\* and the request was fulfilled
C17_Witness ==
  /\ wave.clicked = "WAR2"
  /\ wave.sent = "WAR2"
  /\ wave.invoke = "fulfilled"
  /\ Len(pins) = 2
  /\ pins[1].id = "WAR1"
  /\ Lookup(valuesRef, "WAR2") = Num(150)

\* the renderer's state with no canvas attached (canvasRef.current is null)
NoCanvas == [RT EXCEPT !.canvasRef = 0]

\* C18: when the overlay surface cannot be used, resize and draw return without
\* painting and without throwing, and the map and the frame loop keep running.
\* With no 2D context nothing is ever painted; a frame still sizes the canvas
\* and requests the next frame, a viewport event still runs its listeners, and
\* neither makes the renderer throw.  With no canvas attached resize and draw
\* change nothing and the frame still requests the next one.
C18_NoSurfaceNoPaint ==
  /\ [](\A c \in DOMAIN canvas : ~canvas[c].paint.drawn)
  /\ [][TickFrame => /\ crashed' = crashed
                      /\ fxLoop' = fxLoop
                      /\ canvas'[canvasRef'].w = mapSize[1]
                      /\ canvas'[canvasRef'].h = mapSize[2]
                      /\ Cardinality(Ticks') = 1]_vars
  /\ [][(fxLoop # 0 /\ ViewportEvent) =>
          /\ crashed' = crashed
          /\ pending' = pending
          /\ canvas'[canvasRef'].w = mapSize'[1]
          /\ canvas'[canvasRef'].h = mapSize'[2]]_vars
  /\ [](fxLoop # 0 =>
          /\ resize(NoCanvas, mapSize) = NoCanvas
          /\ drawWith(NoCanvas, fxLoop, mapSize, view, stationValsRef, TRUE) = NoCanvas
          /\ \E p \in tick(NoCanvas, fxLoop, mapSize, view, stationValsRef).pending :
               p \notin pending /\ p.act = fxLoop)

\* without a 2D context: the overlay is mounted with stations to show, a frame
\* has run and requested the next one, the canvas follows a resized map, and
\* nothing is painted
C18_Witness ==
  /\ ~ctx2d
  /\ app = "live"
  /\ ~crashed
  /\ fxLoop # 0
  /\ acts[fxLoop].raf = 2
  /\ Len(acts[fxLoop].pts) = 2
  /\ mapSize = <<8, 8>>
  /\ canvas[canvasRef].w = 8
  /\ ~canvas[canvasRef].paint.drawn
  /\ Cardinality(Ticks) = 1

\* C19: in marker mode of the live App there is exactly one pulse marker per
\* entry of the current station list, the i-th handle of circleRefs is the
\* marker of the i-th station, and once a frame has coloured it, its colour is
\* valueToColor of that station's current value.
C19_MarkerPerStation ==
  (app = "live" /\ mode = "pin") =>
    /\ {i \in DOMAIN circleRefs : circleRefs[i].inst} = 1..Len(stations)
    /\ \A i \in 1..Len(stations) :
         /\ i \in DOMAIN circleRefs
         /\ circleRefs[i].id = stations[i]
         /\ circleRefs[i].lit =>
              circleRefs[i].col = valueToColor(ReadValue(valuesRef, stations[i]))

Rgb(r, g, b) == [nan |-> FALSE, r |-> r, g |-> g, b |-> b]

\* C20: valueToColor (and the overlay's valToRGB) give rgb(255,0,0) for every
\* v <= -3, the colour of -3; rgb(0,255,0) for every v >= 3; rgb(255,255,0) for
\* 0; and for every number a colour, the same one whenever the input is the same.
C20_ColorRamp ==
  shade.called =>
    /\ shade.colour = valueToColor(shade.v)
    /\ shade.rgb = valToRGB(shade.v)
    /\ \A c \in {shade.colour, shade.rgb} :
         /\ ~c.nan
         /\ c.r \in 0..255 /\ c.g \in 0..255 /\ c.b \in 0..255
         /\ (IsNumber(shade.v) /\ shade.v.v <= -300) =>
              c = Rgb(255, 0, 0) /\ c = valueToColor(Num(-300))
         /\ (IsNumber(shade.v) /\ shade.v.v >= 300) => c = Rgb(0, 255, 0)
         /\ shade.v = Num(0) => c = Rgb(255, 255, 0)

(***************************************************************************)
(* The grid of the heat overlay                                             *)
(***************************************************************************)
Yellow == [nan |-> FALSE, r |-> 255, g |-> 255, b |-> 0]

CellsOf(g) == {g.cells[k] : k \in 1..Len(g.cells)}

\* C21: with an empty station list every cell of the grid gets the value 0
\* without a division (the weight sum is 0 and num / den is skipped) and is
\* painted with the colour of the value 0; a division is never by zero.
C21_EmptyListIsZero ==
  grid.called =>
    /\ \A c \in CellsOf(grid) : c.divided => c.den # 0
    /\ grid.sPx = <<>> =>
         \A c \in CellsOf(grid) :
           /\ c.den = 0 /\ ~c.divided
           /\ c.n = 0 /\ c.d = 1
           /\ c.rgb = valToRGB(Num(0)) /\ c.rgb = Yellow

C21_Witness ==
  /\ grid.called /\ grid.sPx = <<>> /\ grid.vals # <<>>
  /\ Len(grid.cells) = 4

\* the two stations of the grid are at the same pixel distance from (x, y)
Equidistant(g, x, y) ==
  /\ Len(g.sPx) = 2
  /\ dist2(x, y, g.sPx[1]) = dist2(x, y, g.sPx[2])

ValueAt(g, i) == Nullish(At(g.vals, i), Num(0)).v

\* C22: a cell at equal pixel distance from the two stations gets the
\* arithmetic mean of their two values; for the values 3 and -3 that is 0,
\* painted yellow.
C22_EquidistantMean ==
  grid.called =>
    \A c \in CellsOf(grid) :
      Equidistant(grid, c.x, c.y) =>
        /\ c.divided /\ c.d > 0
        /\ 2 * c.n = c.d * (ValueAt(grid, 1) + ValueAt(grid, 2))
        /\ {ValueAt(grid, 1), ValueAt(grid, 2)} = {300, -300} =>
             c.n = 0 /\ c.rgb = Yellow

C22_Witness ==
  /\ grid.called
  /\ grid.vals = <<Num(300), Num(-300)>>
  /\ Len(grid.sPx) = 2 /\ grid.sPx[1] # grid.sPx[2]
  /\ \E c \in CellsOf(grid) :
       Equidistant(grid, c.x, c.y) /\ c.n = 0 /\ c.rgb = Yellow

\* the cell origins of a viewport of w by h pixels
Origins(w, h) ==
  {<<x, y>> \in (0..w) \X (0..h) : x % 8 = 0 /\ y % 8 = 0 /\ x < w /\ y < h}

\* C23: a frame paints one cell of 8 by 8 pixels for every origin (x, y) with x
\* and y multiples of 8 inside the viewport, each once and with one
\* interpolated value, and the cells cover every pixel of the viewport.
C23_GridCoversViewport ==
  grid.called =>
    /\ {<<c.x, c.y>> : c \in CellsOf(grid)} = Origins(grid.w, grid.h)
    /\ Len(grid.cells) = Cardinality(Origins(grid.w, grid.h))
    /\ \A k \in 1..Len(grid.cells) :
         /\ grid.cells[k] = fillCell(grid.cells[k].x, grid.cells[k].y, grid.sPx, grid.vals)
         /\ grid.cells[k].w = 8 /\ grid.cells[k].h = 8
    /\ \A u \in 0..(grid.w - 1), v \in 0..(grid.h - 1) :
         \E c \in CellsOf(grid) :
           /\ c.x <= u /\ u < c.x + c.w
           /\ c.y <= v /\ v < c.y + c.h

C23_Witness ==
  /\ grid.called /\ grid.w = 20 /\ grid.h = 12
  /\ Len(grid.cells) = 6
  /\ Len(grid.sPx) = 2

(***************************************************************************)
(* Subscriptions of the preload bridge                                      *)
(***************************************************************************)
\* the on() calls whose returned function was called
Unsubscribed(i) == {k \in 1..Len(i.calls) : i.calls[k].unsubscribed > 0}

\* C24: the function returned by an on() call removes exactly the listener
\* registered by that call: every later event is delivered to the listeners
\* of all other on() calls and not to this one, and calling the returned
\* function again changes nothing.
C24_UnsubscribeRemovesOwn ==
  [][/\ ipcEmit =>
          ipc'.delivered = (1..Len(ipc.calls)) \ Unsubscribed(ipc)
     /\ unsubscribe =>
          /\ \A k \in 1..Len(ipc.calls) :
               ipc.calls[k].unsubscribed = ipc'.calls[k].unsubscribed =>
                 \A j \in 1..Len(ipc.listeners) :
                   ipc.listeners[j] = wrapped(k) =>
                     \E m \in 1..Len(ipc'.listeners) : ipc'.listeners[m] = wrapped(k)
          /\ (\E k \in 1..Len(ipc.calls) :
                ipc.calls[k].unsubscribed = 1 /\ ipc'.calls[k].unsubscribed = 2) =>
               ipc'.listeners = ipc.listeners]_vars

C24_Witness ==
  /\ Len(ipc.calls) = 3
  /\ ipc.calls[1].cb = ipc.calls[3].cb
  /\ ipc.calls[1].unsubscribed = 2 /\ ipc.calls[2].unsubscribed = 0
  /\ ipc.calls[3].unsubscribed = 0
  /\ ipc.delivered = {2, 3}

\* C25: after off was called with the function that an on() call registered,
\* no later event is delivered to that listener.
C25_OffRemoves ==
  [][ipcEmit => \A k \in 1..Len(ipc.calls) : ipc.calls[k].off => k \notin ipc'.delivered]_vars

(***************************************************************************)
(* The 'get-data' request                                                   *)
(***************************************************************************)
\* the stdout chunks of the request joined in arrival order
RECURSIVE Joined(_)
Joined(chunks) == IF chunks = <<>> THEN <<>> ELSE Head(chunks) \o Joined(Tail(chunks))

\* C26: the 'get-data' promise settles once; after the process has closed it
\* is resolved exactly when the exit code is 0, with the trimmed stdout chunks
\* joined in arrival order, and rejected otherwise, also after a spawn failure
\* where both 'error' and 'close' fire.
C26_GetDataSettlesOnce ==
  /\ py.settles <= 1
  /\ py.settles = 0 <=> py.promise.state = "pending"
  /\ py.closed => py.settles = 1
  /\ py.errorFired => py.promise.state = "rejected"
  /\ py.closed => (py.promise.state = "resolved" <=> py.code = Num(0))
  /\ py.closed => (py.promise.state = "rejected" <=> py.code # Num(0))
  /\ py.promise.state = "resolved" =>
       /\ py.closed
       /\ py.promise.value = trim(Joined(py.chunks))
       /\ py.promise.value = <<>> \/ (Head(py.promise.value) \notin Whitespace
                                      /\ py.promise.value[Len(py.promise.value)] \notin Whitespace)

C26_Witness ==
  /\ py.errorFired /\ py.closed /\ py.settleCalls = 2
  /\ py.promise.state = "rejected" /\ py.settles = 1

(***************************************************************************)
(* The receiver bridge in the main process                                  *)
(***************************************************************************)
\* C27: every startReceiverBridge / stopReceiverBridge call completes without
\* throwing; after a start the bridge owns one poll timer and one
\* 'receiver:wave' handler, after a stop none of either.
C27_StartStopOwnership ==
  bridge.last # "none" =>
    /\ ~bridge.threw
    /\ bridge.last = "start" =>
         /\ Cardinality(bridge.intervals) = 1
         /\ bridge.handlers = {"receiver:wave"}
    /\ bridge.last = "stop" =>
         /\ bridge.intervals = {}
         /\ bridge.handlers = {}

\* C28: once stopReceiverBridge has returned (and until the bridge is started
\* again) no 'receiver:live' message is sent to a window.
C28_NoSendAfterStop ==
  [][(bridge.last = "stop" /\ bridge.timer = 0) => bridge'.sent = bridge.sent]_vars

\* C29: the snapshot stored by the renderer never goes back from the result
\* of a later-issued poll to the result of an earlier-issued one.
C29_SnapshotsInIssueOrder ==
  [][bridge'.stored >= bridge.stored]_vars

\* a window that is open while the application runs gets a payload, unless
\* it is closed or the application quits first
Receives(w) ==
  (w \in bridge.windows /\ bridge.phase = "running")
    ~> (w \in bridge.received \/ w \notin bridge.windows \/ bridge.phase = "quitting")

\* C30: every open window eventually receives a 'receiver:live' payload, the
\* receiver answering every poll; also a window created by 'activate' after
\* the earlier windows were closed.
C30_OpenWindowReceives == \A w \in 1..MaxWindows : Receives(w)

====
